---- MODULE Spec2Model ----
(***************************************************************************)
(* Conversation state machine and human-handoff orchestrator of the        *)
(* wherewolf chatbot server.  The repository holds two revisions of the    *)
(* server: src/server.js and the later src/unnamed/part_000.  The variable *)
(* rev selects the revision; code shared by both is modelled once.         *)
(***************************************************************************)
EXTENDS Integers, Sequences, FiniteSets, TLC

\* ------------------------------------------------------------------------
\* Bounds
\* ------------------------------------------------------------------------
MaxRequests == 3        \* state-changing requests per behaviour
MaxPolls == 2           \* polls of the widget client per behaviour
MaxInFlight == 2        \* requests in flight at the same time

\* ------------------------------------------------------------------------
\* Values
\* ------------------------------------------------------------------------
NULL == "null"          \* JavaScript null / undefined, SQL NULL

Revisions == {"server", "part"}

Sessions == {"s1"}      \* widget session keys `${operatorId}_${sessionId}`
SmsKeys == {"sms_P1"}   \* session keys `sms_${normalizedFrom}_${Date.now()}`
SessionKeys == Sessions \cup SmsKeys

Phones == {"P1", "P2"}  \* phone numbers as customers type them
SmsSenders == {"+1P1"}  \* From numbers of inbound SMS (E.164)
Emails == {"E1", "E2"}

\* CONFIG.MAX_CONVERSATION_LENGTH
MAX_CONVERSATION_LENGTH == 20

VARIABLES
    rev,                \* which revision of the server runs
    config,             \* operator_configs.config of the operator
    emailTransporter,   \* TRUE iff the nodemailer transporter is configured
    twilioClient,       \* TRUE iff the Twilio client is configured
    dbConversations,    \* table conversations, by session_key
    dbMessages,         \* table messages, rows in insertion order
    clock,              \* database clock, NOW()
    conversations,      \* conversations[sessionKey]: cached history
    handoff,            \* conversations[`handoff_${sessionKey}`]
    customerContacts,   \* customerContacts[sessionKey]
    txns,               \* open database transactions of requests in flight
    cursor,             \* widget client: lastMessageCount of its next poll
    delivered,          \* widget client: message ids received by polls
    nreq,               \* number of state-changing requests so far
    npoll,              \* number of client polls so far
    resp                \* observation of the last request

vars == <<rev, config, emailTransporter, twilioClient, dbConversations,
          dbMessages, clock, conversations, handoff, customerContacts,
          txns, cursor, delivered, nreq, npoll, resp>>

\* ------------------------------------------------------------------------
\* Customer message texts.  A text is the set of keywords, phone numbers
\* and e-mail addresses it contains; lowerMessage.includes(kw) is
\* membership of kw in that set.
\* ------------------------------------------------------------------------
Texts == {"hello", "agent", "text", "chat here", "P1", "P2", "E1", "E2",
          "agent E1", "weather", "waiver", "vip"}

Tokens(t) ==
    CASE t = "hello"     -> {}
      [] t = "agent"     -> {"agent"}
      [] t = "text"      -> {"text"}
      [] t = "chat here" -> {"chat here"}
      [] t = "P1"        -> {"P1"}
      [] t = "P2"        -> {"P2"}
      [] t = "E1"        -> {"E1"}
      [] t = "E2"        -> {"E2"}
      [] t = "agent E1"  -> {"agent", "E1"}
      [] t = "weather"   -> {"weather"}
      [] t = "waiver"    -> {"waiver"}
      [] t = "vip"       -> {"vip"}
      [] OTHER           -> {}

\* String.prototype.includes: the empty string is contained in every text
Includes(t, kw) == kw = "" \/ kw \in Tokens(t)

\* extractPhoneFromMessage, message.match(phoneRegex)[0]
extractPhoneFromMessage(t) ==
    IF \E p \in Phones : p \in Tokens(t)
    THEN CHOOSE p \in Phones : p \in Tokens(t)
    ELSE NULL

\* message.match(emailRegex)[0]
extractEmailFromMessage(t) ==
    IF \E e \in Emails : e \in Tokens(t)
    THEN CHOOSE e \in Emails : e \in Tokens(t)
    ELSE NULL

\* phone.replace(/\D/g, ''): the digits of a phone number
Digits(p) ==
    CASE p = "P1"   -> "5551234567"
      [] p = "P2"   -> "5559876543"
      [] p = "+1P1" -> "15551234567"
      [] OTHER      -> ""

\* normalizePhone of the SMS webhook: digits without a leading 1 of an
\* 11-digit number
normalizePhone(p) ==
    IF p = NULL THEN ""
    ELSE IF Digits(p) = "15551234567" THEN "5551234567"
    ELSE Digits(p)

\* a || b of JavaScript on values that are NULL or a non-empty string
Or(a, b) == IF a # NULL THEN a ELSE b

weatherKeywords ==
    {"weather", "temperature", "temp", "hot", "cold", "warm", "cool",
     "rain", "rainy", "raining", "sunny", "cloudy", "overcast",
     "forecast", "conditions", "climate", "degrees", "humid",
     "windy", "wind", "storm", "clear", "nice day", "beautiful day"}

defaultAgentKeywords ==
    {"agent", "human", "speak to someone", "talk to someone",
     "representative", "person", "staff", "manager", "urgent",
     "speak with human", "speak with an agent", "speak human",
     "talk to human", "talk with human", "real person",
     "customer service", "help me", "support"}

\* t.trim().toLowerCase() of one comma-separated field
TrimLower(field) ==
    CASE field = " VIP" -> "vip"
      [] field = " "    -> ""
      [] OTHER          -> field

NonEmptyTriggers(cfg) ==
    IF cfg.handoffTriggers = NULL THEN {}
    ELSE {TrimLower(cfg.handoffTriggers[i]) : i \in DOMAIN cfg.handoffTriggers}
            \ {""}

\* currentConfig.handoffTriggers.split(',').map(t => t.trim().toLowerCase())
\* handoffTriggers is the sequence of the fields between the commas; an
\* empty or blank field stays in the list as the empty string
customTriggers(cfg) ==
    IF cfg.handoffTriggers = NULL THEN {}
    ELSE {TrimLower(cfg.handoffTriggers[i]) : i \in DOMAIN cfg.handoffTriggers}

isAgentRequest(cfg, t) ==
    \/ \E kw \in defaultAgentKeywords \cup customTriggers(cfg) : Includes(t, kw)
    \/ Includes(t, "call me")
    \/ Includes(t, "speak") /\ Includes(t, "human")
    \/ Includes(t, "talk") /\ Includes(t, "human")
    \/ Includes(t, "connect") /\ Includes(t, "agent")
    \/ Includes(t, "phone") /\ Includes(t, "call") /\ Len(t) < 20

hasWeatherQuestion(t) == \E kw \in weatherKeywords : Includes(t, kw)

\* ------------------------------------------------------------------------
\* Operator configurations
\* ------------------------------------------------------------------------
AlertPreferences == {"email", "dashboard", "none"}
SmsModes == {"disabled", "hybrid", "sms-first"}

\* The configurations an operator can have saved.  Weather and a waiver
\* link are set; booking link, location and tour times are not.
Configs ==
    [alertPreference : AlertPreferences,
     smsEnabled      : SmsModes,
     operatorEmail   : {TRUE},
     handoffTriggers : {NULL},
     weatherEnabled  : {TRUE},
     waiverLink      : {TRUE},
     bookingLink     : {FALSE},
     location        : {FALSE},
     times           : {FALSE}]

\* ------------------------------------------------------------------------
\* app.post('/api/chat'): the branch a customer message takes
\* ------------------------------------------------------------------------
\* What one branch of the handler does after the user message was cached:
\*   branch, reply   which branch ran and the assistant reply it appends
\*   setPhone/Email  contact written to customerContacts and the database
\*   smsTo           number sendSMS is called with
\*   mail            sendHandoffEmail is called
\*   llm             the completion API is called
\*   escalate        markAgentRequested and the handoff flag are set
Out(branch, reply, setPhone, setEmail, smsTo, mail, llm, escalate, polling) ==
    [branch |-> branch, reply |-> reply, setPhone |-> setPhone,
     setEmail |-> setEmail, smsTo |-> smsTo, mail |-> mail, llm |-> llm,
     escalate |-> escalate, startPolling |-> polling]

\* A branch calls at most one external capability whose result it uses
\* (sendSMS, the completion API or the weather API); ok is that result.
\* sendHandoffEmail catches every error and no caller reads its result, so
\* ok is also the outcome of the email sent by the request.

SmsReplyOrNone(twilio, ok) == IF twilio /\ ok THEN "sms_sent" ELSE NULL

\* botResponse after sendSMS: smsResult && smsResult.success
SmsReply(twilio, ok) == IF twilio /\ ok THEN "sms_sent" ELSE "sms_saved"

\* The follow-up block `if (alreadyHandedOff)`; "fallthrough" when no
\* branch of the block returns.
FollowUp(r, cfg, conv, cc, mailer, twilio, t, ok) ==
    LET smsEnabled    == cfg.smsEnabled
        ccPhone       == cc.phone
        existingPhone == Or(ccPhone, conv.customer_phone)
        textPhone     == IF r = "part"
                         THEN Or(existingPhone, extractPhoneFromMessage(t))
                         ELSE Or(ccPhone, extractPhoneFromMessage(t))
        msgPhone      == extractPhoneFromMessage(t)
        msgEmail      == extractEmailFromMessage(t)
    IN
    IF (Includes(t, "text") \/ Includes(t, "sms")) /\ smsEnabled = "hybrid"
       /\ textPhone # NULL
    THEN IF r = "part" /\ existingPhone # NULL
            /\ (Includes(t, "use my existing phone") \/ Includes(t, "existing phone"))
         THEN Out("sms_existing", SmsReply(twilio, ok), textPhone, NULL,
                  existingPhone, mailer, FALSE, FALSE, FALSE)
         ELSE Out("sms_choice", SmsReply(twilio, ok), textPhone, NULL,
                  textPhone, mailer, FALSE, FALSE, FALSE)
    ELSE IF msgPhone # NULL /\ smsEnabled = "hybrid"
    THEN IF r = "part" /\ existingPhone # NULL
            /\ Digits(existingPhone) = Digits(msgPhone)
         THEN Out("sms_same_phone", SmsReply(twilio, ok), NULL, NULL,
                  existingPhone, mailer, FALSE, FALSE, FALSE)
         ELSE Out("sms_phone", SmsReply(twilio, ok), msgPhone, NULL,
                  msgPhone, mailer, FALSE, FALSE, FALSE)
    ELSE IF Includes(t, "continue chatting") \/ Includes(t, "chat here")
            \/ (Includes(t, "prefer") /\ Includes(t, "here"))
    THEN Out("chat_here", "chat_here", NULL, NULL, NULL, mailer, FALSE, FALSE, TRUE)
    ELSE IF msgEmail # NULL
    THEN Out("email_saved", "email_saved", NULL, msgEmail, NULL, mailer,
             FALSE, FALSE, FALSE)
    ELSE IF msgPhone # NULL /\ smsEnabled = "disabled"
    THEN Out("phone_saved", "phone_saved", msgPhone, NULL, NULL, mailer,
             FALSE, FALSE, FALSE)
    ELSE IF isAgentRequest(cfg, t)
    THEN Out("already_notified", "already_notified", NULL, NULL, NULL, FALSE,
             FALSE, FALSE, FALSE)
    ELSE Out("fallthrough", NULL, NULL, NULL, NULL, FALSE, FALSE, FALSE, FALSE)

\* `if (isAgentRequest && !alreadyHandedOff)`
InitialHandoff(r, cfg, mailer) ==
    IF r = "part" /\ cfg.alertPreference = "none"
    THEN Out("ai_only", "ai_only", NULL, NULL, NULL, FALSE, FALSE, FALSE, FALSE)
    ELSE Out("escalation", "escalation", NULL, NULL, NULL,
             IF r = "part" THEN cfg.alertPreference = "email" /\ mailer
                           ELSE cfg.smsEnabled # "hybrid" /\ mailer,
             FALSE, TRUE,
             r = "part" /\ cfg.alertPreference = "dashboard")

CompletionReplyOrNone(ok) == IF ok THEN "llm" ELSE NULL

\* response.data.content[0].text, or the fallbackResponse of the catch
CompletionReply(ok) == IF ok THEN "llm" ELSE "fallback"

\* The branches after the handoff blocks: canned replies, then the
\* completion API.
Canned(r, cfg, mailer, twilio, t, ok) ==
    IF Includes(t, "waiver") \/ Includes(t, "form") \/ Includes(t, "sign")
       \/ Includes(t, "release")
    THEN Out("waiver", IF r = "part" /\ ~cfg.waiverLink THEN "waiver_unknown"
                       ELSE "waiver",
             NULL, NULL, NULL, FALSE, FALSE, FALSE, FALSE)
    ELSE IF (Includes(t, "price") \/ Includes(t, "cost") \/ Includes(t, "pricing"))
            /\ cfg.bookingLink
    THEN Out("pricing", "pricing", NULL, NULL, NULL, FALSE, FALSE, FALSE, FALSE)
    ELSE IF cfg.bookingLink /\ (Includes(t, "book") \/ Includes(t, "reserve")
                                \/ Includes(t, "schedule"))
    THEN Out("booking", "booking", NULL, NULL, NULL, FALSE, FALSE, FALSE, FALSE)
    ELSE IF r = "part" /\ extractPhoneFromMessage(t) # NULL
            /\ cfg.smsEnabled = "sms-first"
    THEN Out("sms_first_phone", SmsReply(twilio, ok),
             extractPhoneFromMessage(t), NULL, extractPhoneFromMessage(t),
             mailer, FALSE, FALSE, FALSE)
    ELSE IF r = "part" /\ cfg.location
            /\ (Includes(t, "meet") \/ Includes(t, "location") \/ Includes(t, "where"))
    THEN Out("location", "location", NULL, NULL, NULL, FALSE, FALSE, FALSE, FALSE)
    ELSE IF r = "part" /\ (cfg.bookingLink \/ cfg.times)
            /\ (Includes(t, "time") \/ Includes(t, "schedule") \/ Includes(t, "when"))
    THEN Out("time", IF cfg.bookingLink THEN "time_booking" ELSE "time_list",
             NULL, NULL, NULL, FALSE, FALSE, FALSE, FALSE)
    ELSE Out("claude", CompletionReply(ok),
             NULL, NULL, NULL, FALSE, TRUE, FALSE, FALSE)

\* The handler from the weather detection on.
ChatBranch(r, cfg, conv, cc, handedOff, mailer, twilio, t, ok) ==
    IF r = "part" /\ cfg.weatherEnabled /\ hasWeatherQuestion(t)
    THEN Out("weather", IF ok THEN "weather" ELSE "weather_fallback",
             NULL, NULL, NULL, FALSE, FALSE, FALSE, FALSE)
    ELSE LET f == FollowUp(r, cfg, conv, cc, mailer, twilio, t, ok) IN
         IF handedOff /\ f.branch # "fallthrough" THEN f
         ELSE IF isAgentRequest(cfg, t) /\ ~handedOff
         THEN InitialHandoff(r, cfg, mailer)
         ELSE Canned(r, cfg, mailer, twilio, t, ok)

\* ------------------------------------------------------------------------
\* Database tables
\* ------------------------------------------------------------------------
Statuses == {"new", "in_progress", "resolved", "on_hold"}

\* No row for a session key: conversation_id 0.  rows is the number of
\* rows of the table that carry the session key.
NoConversation ==
    [conversation_id |-> 0, customer_email |-> NULL, customer_phone |-> NULL,
     customer_sms_number |-> NULL, message_count |-> 0,
     last_message_at |-> 0, agent_requested |-> FALSE, status |-> NULL,
     rows |-> 0]

\* INSERT INTO conversations (operator_id, session_key): column defaults
NewConversation(id, ts) ==
    [conversation_id |-> id, customer_email |-> NULL, customer_phone |-> NULL,
     customer_sms_number |-> NULL, message_count |-> 0,
     last_message_at |-> ts, agent_requested |-> FALSE, status |-> "new",
     rows |-> 1]

\* conversation_id SERIAL
NextConversationId ==
    Cardinality({k \in SessionKeys : dbConversations[k].conversation_id # 0}) + 1

\* getOrCreateConversation
getOrCreateConversation(k, ts) ==
    IF dbConversations[k].conversation_id # 0 THEN dbConversations[k]
    ELSE NewConversation(NextConversationId, ts)

UniqueViolationNever(conv) == FALSE

\* session_key VARCHAR(50) UNIQUE NOT NULL: an INSERT of a session key
\* that a committed row carries raises a unique violation
UniqueViolation(conv) == conv.rows >= 1

\* INSERT INTO conversations (operator_id, session_key) when the
\* constraint lets it pass; SELECT ... WHERE session_key = $1 keeps
\* returning the first row of the key
InsertConversation(conv, id, ts) ==
    IF conv.rows = 0 THEN NewConversation(id, ts)
    ELSE [conv EXCEPT !.rows = @ + 1]

\* INSERT INTO messages (conversation_id, role, content): message_id is
\* SERIAL, timestamp defaults to NOW(), the start of the transaction
InsertMessage(rows, convId, role, content, ts) ==
    Append(rows, [conversation_id |-> convId, message_id |-> Len(rows) + 1,
                  timestamp |-> ts, role |-> role, content |-> content])

CountMessageTimestampOnly(conv, ts) == [conv EXCEPT !.last_message_at = ts]

\* UPDATE conversations SET last_message_at = NOW(),
\*                          message_count = message_count + 1
CountMessage(conv, ts) ==
    [conv EXCEPT !.message_count = @ + 1, !.last_message_at = ts]

RowsOf(rows, convId) ==
    {rows[i] : i \in {j \in DOMAIN rows : rows[j].conversation_id = convId}}

\* ORDER BY timestamp ASC, message_id ASC
Before(a, b) ==
    \/ a.timestamp < b.timestamp
    \/ a.timestamp = b.timestamp /\ a.message_id < b.message_id

\* SELECT ... FROM messages WHERE conversation_id = $1
\* ORDER BY timestamp ASC, message_id ASC
ListMessages(rows, convId) ==
    LET R == RowsOf(rows, convId) IN
    [i \in 1..Cardinality(R) |->
        CHOOSE m \in R : Cardinality({x \in R : Before(x, m)}) = i - 1]

\* SELECT COUNT(*) FROM messages WHERE conversation_id = $1 AND role = $2
CountRole(rows, convId, role) ==
    Cardinality({m \in RowsOf(rows, convId) : m.role = role})

UpdateContactBoth(conv, email, phone) ==
    [conv EXCEPT !.customer_email = email, !.customer_phone = phone]

\* updateCustomerContact: only the fields given are written
UpdateContact(conv, email, phone) ==
    [conv EXCEPT !.customer_email = IF email # NULL THEN email ELSE @,
                 !.customer_phone = IF phone # NULL THEN phone ELSE @]

\* the session key of a conversation id, NULL when there is no such row
KeyOf(convId) ==
    IF convId # 0 /\ \E k \in SessionKeys : dbConversations[k].conversation_id = convId
    THEN CHOOSE k \in SessionKeys : dbConversations[k].conversation_id = convId
    ELSE NULL

\* ------------------------------------------------------------------------
\* In-memory maps
\* ------------------------------------------------------------------------
\* No entry under a key of customerContacts / conversations
NoContact == [present |-> FALSE, email |-> NULL, phone |-> NULL]
NoEntry == [present |-> FALSE, msgs |-> <<>>, lastActivity |-> NULL]

\* customerContacts[sessionKey] = { ...customerContacts[sessionKey], field }
MergeContact(cc, email, phone) ==
    [present |-> TRUE,
     email |-> IF email # NULL THEN email ELSE cc.email,
     phone |-> IF phone # NULL THEN phone ELSE cc.phone]

\* conversations[sessionKey].push(entry); the array keeps its lastActivity
Push(entry, role, content) ==
    [entry EXCEPT !.msgs = Append(@, [role |-> role, content |-> content])]

\* conversations[sessionKey].slice(-MAX_CONVERSATION_LENGTH) after a
\* completion: the new array has no lastActivity property
Trim(entry) ==
    IF Len(entry.msgs) > MAX_CONVERSATION_LENGTH
    THEN [present |-> TRUE,
          msgs |-> SubSeq(entry.msgs,
                          Len(entry.msgs) - MAX_CONVERSATION_LENGTH + 1,
                          Len(entry.msgs)),
          lastActivity |-> NULL]
    ELSE entry

\* Observation of a request: what it returned and which external
\* capabilities it called
NoResp ==
    [op |-> "none", key |-> NULL, text |-> NULL, status |-> 0,
     branch |-> NULL, reply |-> NULL, llm |-> FALSE, mails |-> 0, sms |-> 0,
     smsTo |-> NULL, history |-> 0, historyRoles |-> {},
     startPolling |-> FALSE, last |-> 0, newMessages |-> <<>>, total |-> 0]

\* ------------------------------------------------------------------------
\* Initial state: server started, operator configured, empty tables
\* ------------------------------------------------------------------------
Init ==
    /\ rev \in Revisions
    /\ config \in Configs
    /\ emailTransporter = TRUE
    /\ twilioClient = TRUE
    /\ dbConversations = [k \in SessionKeys |-> NoConversation]
    /\ dbMessages = <<>>
    /\ clock = 1
    /\ conversations = [s \in Sessions |-> NoEntry]
    /\ handoff = [s \in Sessions |-> FALSE]
    /\ customerContacts = [s \in Sessions |-> NoContact]
    /\ txns = {}
    /\ cursor = [s \in Sessions |-> 0]
    /\ delivered = [s \in Sessions |-> <<>>]
    /\ nreq = 0
    /\ npoll = 0
    /\ resp = NoResp

\* ------------------------------------------------------------------------
\* app.post('/api/chat') for an operator whose config exists.  ts is the
\* conv0 is the row getOrCreateConversation returned, ts the start time
\* of the transaction that saves the user message, ts2 that of the later
\* transactions of the request.
\* ------------------------------------------------------------------------
ChatEffect(s, t, conv0, ts, ts2, ok) ==
    \E out \in {ChatBranch(rev, config, conv0, customerContacts[s],
                           handoff[s], emailTransporter, twilioClient, t, ok)} :
    LET id      == conv0.conversation_id
        row     == IF dbConversations[s].conversation_id # 0
                   THEN dbConversations[s] ELSE conv0
        rows1   == InsertMessage(dbMessages, id, "user", t, ts)
        conv1   == CountMessage(row, ts)
        showContactForm ==
            /\ rev = "part"
            /\ CountRole(rows1, id, "user") = 1
            /\ conv0.customer_email = NULL /\ conv0.customer_phone = NULL
        entry0  == IF ~conversations[s].present
                   THEN [present |-> TRUE, msgs |-> <<>>, lastActivity |-> NULL]
                   ELSE conversations[s]
        entry1  == [Push(entry0, "user", t) EXCEPT !.lastActivity = "recent"]
        conv2   == [CountMessage(UpdateContact(conv1, out.setEmail, out.setPhone), ts2)
                      EXCEPT !.agent_requested = IF out.escalate THEN TRUE ELSE @]
        entry2  == Push(entry1, "assistant", out.reply)
        entry3  == IF out.llm /\ ok THEN Trim(entry2) ELSE entry2
    IN
    IF showContactForm
    THEN /\ dbConversations' = [dbConversations EXCEPT ![s] = conv1]
         /\ dbMessages' = rows1
         /\ resp' = [NoResp EXCEPT !.op = "chat", !.key = s, !.text = t,
                                    !.status = 200, !.branch = "contact_form"]
         /\ UNCHANGED <<conversations, handoff, customerContacts>>
    ELSE /\ dbConversations' = [dbConversations EXCEPT ![s] = conv2]
         /\ dbMessages' = InsertMessage(rows1, id, "assistant", out.reply, ts2)
         /\ conversations' = [conversations EXCEPT ![s] = entry3]
         /\ handoff' = [handoff EXCEPT ![s] = IF out.escalate THEN TRUE ELSE @]
         /\ customerContacts' =
                IF out.setEmail # NULL \/ out.setPhone # NULL
                THEN [customerContacts EXCEPT
                        ![s] = MergeContact(@, out.setEmail, out.setPhone)]
                ELSE customerContacts
         /\ resp' = [NoResp EXCEPT
                        !.op = "chat", !.key = s, !.text = t,
                        !.status = 200, !.branch = out.branch,
                        !.reply = out.reply, !.llm = out.llm,
                        !.mails = IF out.mail /\ config.operatorEmail THEN 1 ELSE 0,
                        !.sms = IF out.smsTo # NULL /\ twilioClient THEN 1 ELSE 0,
                        !.smsTo = out.smsTo,
                        !.history = IF out.llm THEN Len(entry1.msgs) ELSE 0,
                        !.historyRoles =
                            IF out.llm
                            THEN {entry1.msgs[i].role : i \in DOMAIN entry1.msgs}
                            ELSE {},
                        !.startPolling = out.startPolling]

Chat(s, t, ok) ==
    /\ nreq < MaxRequests
    /\ txns = {}
    /\ nreq' = nreq + 1
    /\ clock' = clock + 2
    /\ ChatEffect(s, t, getOrCreateConversation(s, clock), clock, clock + 1, ok)
    /\ UNCHANGED <<rev, config, emailTransporter, twilioClient, txns, cursor,
                   delivered, npoll>>

\* ------------------------------------------------------------------------
\* app.post('/contact-info')
\* ------------------------------------------------------------------------
\* The characters of the email addresses and phone numbers submitted
Chars(x) ==
    CASE x = "E1"      -> <<"a", "@", "b", ".", "c">>
      [] x = "E2"      -> <<"d", ".", "e", "@", "b", ".", "c">>
      [] x = "E_noat"  -> <<"a", "b", ".", "c">>
      [] x = "E_nodot" -> <<"a", "@", "b">>
      [] x = "E_space" -> <<"a", " ", "@", "b", ".", "c">>
      [] x = "P1"      -> <<"5", "5", "5", "1", "2", "3", "4", "5", "6", "7">>
      [] x = "P2"      -> <<"(", "5", "5", "5", ")", " ", "9", "8", "7", "-",
                            "6", "5", "4", "3">>
      [] x = "P_short" -> <<"5", "5", "5", "-", "1", "2", "3", "4">>
      [] x = "P_word"  -> <<"5", "5", "5", "1", "2", "3", "4", "5", "6", "7",
                            "x", "9">>
      [] OTHER         -> <<>>

DigitChars == {"0", "1", "2", "3", "4", "5", "6", "7", "8", "9"}

EmailAccepted(email) == TRUE

\* /^[^\s@]+@[^\s@]+\.[^\s@]+$/.test(email)
EmailWellFormed(email) ==
    LET q   == Chars(email)
        ats == {i \in 1..Len(q) : q[i] = "@"}
    IN /\ Cardinality(ats) = 1
       /\ \A i \in 1..Len(q) : q[i] # " "
       /\ \A a \in ats :
             /\ a > 1
             /\ \E d \in (a + 2)..(Len(q) - 1) : q[d] = "."

\* /^[\+]?[\s\-\(\)]*([0-9][\s\-\(\)]*){10,}$/.test(phone)
PhoneWellFormed(phone) ==
    LET q    == Chars(phone)
        from == IF Len(q) > 0 /\ q[1] = "+" THEN 2 ELSE 1
    IN /\ \A i \in from..Len(q) : q[i] \in DigitChars \cup {" ", "-", "(", ")"}
       /\ Cardinality({i \in from..Len(q) : q[i] \in DigitChars}) >= 10

ContactInfo(s, email, phone) ==
    /\ nreq < MaxRequests
    /\ txns = {}
    /\ nreq' = nreq + 1
    /\ clock' = clock + 1
    /\ IF \/ email # NULL /\ ~EmailWellFormed(email)
          \/ phone # NULL /\ ~PhoneWellFormed(phone)
       THEN \* 400 'Invalid email format' / 'Invalid phone format'
            /\ resp' = [NoResp EXCEPT !.op = "contact-info", !.key = s,
                                       !.status = 400]
            /\ UNCHANGED <<customerContacts, dbConversations>>
       ELSE /\ customerContacts' = [customerContacts EXCEPT
                    ![s] = [present |-> TRUE, email |-> email, phone |-> phone]]
            /\ resp' = [NoResp EXCEPT !.op = "contact-info", !.key = s,
                                       !.status = 200]
            /\ IF rev = "part" \/ dbConversations[s].conversation_id # 0
               THEN \* part_000 creates the conversation first
                    dbConversations' = [dbConversations EXCEPT
                        ![s] = UpdateContact(getOrCreateConversation(s, clock),
                                             email, phone)]
               ELSE \* server.js: the UPDATE matches no row
                    UNCHANGED dbConversations
    /\ UNCHANGED <<rev, config, emailTransporter, twilioClient, dbMessages,
                   conversations, handoff, txns, cursor, delivered, npoll>>

\* ------------------------------------------------------------------------
\* app.post('/api/chat') with an operator id that has no row in
\* operator_configs.  k is the session key `${operatorId}_${sessionId}`,
\* which can be the key of an existing conversation of another operator
\* (operator 'a', session 'b_c' and operator 'a_b', session 'c').
\* ------------------------------------------------------------------------
UnknownOperatorKeys == Sessions \cup {"u1"}

ChatUnknownOperator(k, t) ==
    /\ nreq < MaxRequests
    /\ txns = {}
    /\ nreq' = nreq + 1
    /\ clock' = clock + 1
    /\ IF rev = "part"
       THEN \* the config is loaded first: 404 'Operator config not found.'
            /\ resp' = [NoResp EXCEPT !.op = "chat", !.key = k, !.text = t,
                                       !.status = 404, !.branch = "no_config"]
            /\ UNCHANGED <<dbConversations, dbMessages>>
       ELSE IF k \in SessionKeys /\ dbConversations[k].conversation_id # 0
       THEN \* server.js: the row is found by session key, the user message
            \* is saved, then the config is loaded: 404
            /\ dbMessages' = InsertMessage(dbMessages,
                                dbConversations[k].conversation_id,
                                "user", t, clock)
            /\ dbConversations' = [dbConversations EXCEPT
                                     ![k] = CountMessage(@, clock)]
            /\ resp' = [NoResp EXCEPT !.op = "chat", !.key = k, !.text = t,
                                       !.status = 404, !.branch = "no_config"]
       ELSE \* server.js: INSERT INTO conversations violates the foreign key
            \* on operator_id, ROLLBACK, 500 'Internal server error'
            /\ resp' = [NoResp EXCEPT !.op = "chat", !.key = k, !.text = t,
                                       !.status = 500, !.branch = "no_config"]
            /\ UNCHANGED <<dbConversations, dbMessages>>
    /\ UNCHANGED <<rev, config, emailTransporter, twilioClient, conversations,
                   handoff, customerContacts, txns, cursor, delivered, npoll>>

\* ------------------------------------------------------------------------
\* app.post('/api/dashboard/send-message').  ts is the start time of the
\* transaction.
\* ------------------------------------------------------------------------
JoinedNotice == "joined"    \* 'A team member has joined the chat ...'

StatusAlwaysInProgress(status) == "in_progress"

\* status = CASE WHEN status = 'new' THEN 'in_progress' ELSE status END
StatusAfterOperatorMessage(status) ==
    IF status = "new" THEN "in_progress" ELSE status

IsFirstOperatorMessageAlways(rows, convId) == TRUE

\* parseInt(existingOperatorMessages.rows[0].count) === 0
IsFirstOperatorMessage(rows, convId) == CountRole(rows, convId, "operator") = 0

SendMessageEffect(convId, ts) ==
    LET k       == KeyOf(convId)
        conv    == dbConversations[k]
        isFirstOperatorMessage == IsFirstOperatorMessage(dbMessages, convId)
        rows1   == IF isFirstOperatorMessage
                   THEN InsertMessage(dbMessages, convId, "system", JoinedNotice, ts)
                   ELSE dbMessages
        conv1   == IF isFirstOperatorMessage THEN CountMessage(conv, ts) ELSE conv
        conv2   == [CountMessage(conv1, ts) EXCEPT
                      !.status = StatusAfterOperatorMessage(@)]
        entry1  == IF isFirstOperatorMessage
                   THEN Push(conversations[k], "system", JoinedNotice)
                   ELSE conversations[k]
        entry2  == [Push(entry1, "operator", "op") EXCEPT !.lastActivity = "recent"]
    IN
    IF k = NULL
    THEN /\ resp' = [NoResp EXCEPT !.op = "send-message", !.status = 404]
         /\ UNCHANGED <<dbConversations, dbMessages, conversations>>
    ELSE /\ dbMessages' = InsertMessage(rows1, convId, "operator", "op", ts)
         /\ dbConversations' = [dbConversations EXCEPT ![k] = conv2]
         /\ conversations' =
                IF k \in Sessions /\ conversations[k].present
                THEN [conversations EXCEPT ![k] = entry2]
                ELSE conversations
         /\ resp' = [NoResp EXCEPT !.op = "send-message", !.key = k,
                                    !.status = 200,
                                    !.branch = IF isFirstOperatorMessage
                                               THEN "first" ELSE "later"]

SendMessage(convId) ==
    /\ nreq < MaxRequests
    /\ txns = {}
    /\ nreq' = nreq + 1
    /\ clock' = clock + 1
    /\ SendMessageEffect(convId, clock)
    /\ UNCHANGED <<rev, config, emailTransporter, twilioClient, handoff,
                   customerContacts, txns, cursor, delivered, npoll>>

\* ------------------------------------------------------------------------
\* app.post('/api/dashboard/update-status') with a valid status.
\* A status update adds no row and is not counted among the requests.
\* ------------------------------------------------------------------------
UpdateStatus(convId, status) ==
    /\ txns = {}
    /\ LET k == KeyOf(convId) IN
       IF k = NULL
       THEN /\ resp' = [NoResp EXCEPT !.op = "update-status", !.status = 404]
            /\ UNCHANGED dbConversations
       ELSE /\ dbConversations' = [dbConversations EXCEPT ![k].status = status]
            /\ resp' = [NoResp EXCEPT !.op = "update-status", !.key = k,
                                       !.status = 200]
    /\ UNCHANGED <<rev, config, emailTransporter, twilioClient, dbMessages,
                   clock, conversations, handoff, customerContacts, txns,
                   cursor, delivered, nreq, npoll>>

\* ------------------------------------------------------------------------
\* app.post('/api/dashboard/conversations/:id/status') with a valid status.
\* The UPDATE of src/server.js also sets updated_at, a column the table
\* conversations does not have: the statement fails for every id and the
\* catch answers 500.
\* ------------------------------------------------------------------------
\* UPDATE conversations SET status = $1, updated_at = NOW() raises
\* 'column "updated_at" of relation "conversations" does not exist'
StatusUpdateFails(r) == r = "server"

SetStatus(convId, status) ==
    /\ txns = {}
    /\ LET k == KeyOf(convId) IN
       IF StatusUpdateFails(rev)
       THEN /\ resp' = [NoResp EXCEPT !.op = "set-status", !.status = 500]
            /\ UNCHANGED dbConversations
       ELSE IF k = NULL
       THEN /\ resp' = [NoResp EXCEPT !.op = "set-status", !.status = 404]
            /\ UNCHANGED dbConversations
       ELSE /\ dbConversations' = [dbConversations EXCEPT ![k].status = status]
            /\ resp' = [NoResp EXCEPT !.op = "set-status", !.key = k,
                                       !.status = 200]
    /\ UNCHANGED <<rev, config, emailTransporter, twilioClient, dbMessages,
                   clock, conversations, handoff, customerContacts, txns,
                   cursor, delivered, nreq, npoll>>

\* ------------------------------------------------------------------------
\* app.post('/api/dashboard/send-sms'): sendSMS returns an object whether
\* or not the message was sent, so the operator message is always saved
\* ------------------------------------------------------------------------
SendSms(convId) ==
    /\ nreq < MaxRequests
    /\ txns = {}
    /\ nreq' = nreq + 1
    /\ clock' = clock + 1
    /\ LET k == KeyOf(convId) IN
       IF k = NULL \/ dbConversations[k].customer_sms_number = NULL
       THEN /\ resp' = [NoResp EXCEPT !.op = "send-sms", !.status = 404]
            /\ UNCHANGED <<dbConversations, dbMessages>>
       ELSE /\ dbMessages' = InsertMessage(dbMessages, convId, "operator",
                                           "sms_out", clock)
            /\ dbConversations' = [dbConversations EXCEPT
                                     ![k] = CountMessage(@, clock)]
            /\ resp' = [NoResp EXCEPT !.op = "send-sms", !.key = k,
                                       !.status = 200,
                                       !.sms = IF twilioClient THEN 1 ELSE 0]
    /\ UNCHANGED <<rev, config, emailTransporter, twilioClient, conversations,
                   handoff, customerContacts, txns, cursor, delivered, npoll>>

\* ------------------------------------------------------------------------
\* app.post('/api/sms/webhook'): inbound SMS from a customer number
\* ------------------------------------------------------------------------
\* the conversations whose phone or SMS number normalises to the sender's
MatchingConversations(from) ==
    {k \in SessionKeys :
        /\ dbConversations[k].conversation_id # 0
        /\ \/ /\ dbConversations[k].customer_phone # NULL
              /\ normalizePhone(dbConversations[k].customer_phone) = normalizePhone(from)
           \/ /\ dbConversations[k].customer_sms_number # NULL
              /\ normalizePhone(dbConversations[k].customer_sms_number) = normalizePhone(from)}

\* ORDER BY last_message_at DESC, first match; rows with equal
\* last_message_at come in an order the database chooses
SmsWebhook(from, newKey) ==
    /\ nreq < MaxRequests
    /\ txns = {}
    /\ nreq' = nreq + 1
    /\ clock' = clock + 1
    /\ LET M == MatchingConversations(from) IN
       IF M # {}
       THEN \E k \in M :
              /\ \A j \in M : dbConversations[j].last_message_at
                                 <= dbConversations[k].last_message_at
              /\ dbMessages' = InsertMessage(dbMessages,
                                  dbConversations[k].conversation_id,
                                  "user", "sms_in", clock)
              /\ dbConversations' = [dbConversations EXCEPT
                    ![k] = CountMessage([@ EXCEPT !.customer_sms_number = from],
                                        clock)]
              /\ resp' = [NoResp EXCEPT !.op = "sms-webhook", !.key = k,
                                         !.status = 200, !.branch = "merged"]
       ELSE /\ dbConversations[newKey].conversation_id = 0
            /\ dbMessages' = InsertMessage(dbMessages, NextConversationId,
                                           "user", "sms_in", clock)
            /\ dbConversations' = [dbConversations EXCEPT
                  ![newKey] = CountMessage(
                      [NewConversation(NextConversationId, clock) EXCEPT
                          !.customer_phone = from,
                          !.customer_sms_number = from], clock)]
            /\ resp' = [NoResp EXCEPT !.op = "sms-webhook", !.key = newKey,
                                       !.status = 200, !.branch = "created"]
    /\ UNCHANGED <<rev, config, emailTransporter, twilioClient, conversations,
                   handoff, customerContacts, txns, cursor, delivered, npoll>>

\* ------------------------------------------------------------------------
\* app.post('/api/chat/poll-messages')
\* ------------------------------------------------------------------------
SliceFromOne(q, n) == IF n >= Len(q) THEN <<>> ELSE SubSeq(q, n + 2, Len(q))

\* allMessages.slice(lastMessageCount) for lastMessageCount >= 0
Slice(q, n) == IF n >= Len(q) THEN <<>> ELSE SubSeq(q, n + 1, Len(q))

\* newMessages.filter(msg => msg.role === 'operator' || msg.role === 'system')
RECURSIVE FilterRelevant(_)
FilterRelevant(q) ==
    IF q = <<>> THEN <<>>
    ELSE IF Head(q).role \in {"operator", "system"}
         THEN <<Head(q)>> \o FilterRelevant(Tail(q))
         ELSE FilterRelevant(Tail(q))

PollResponse(k, lastMessageCount) ==
    IF dbConversations[k].conversation_id = 0
    THEN [NoResp EXCEPT !.op = "poll", !.key = k, !.status = 200,
                        !.last = lastMessageCount]
    ELSE LET allMessages == ListMessages(dbMessages,
                                         dbConversations[k].conversation_id)
         IN [NoResp EXCEPT
                !.op = "poll", !.key = k, !.status = 200,
                !.last = lastMessageCount,
                !.newMessages = FilterRelevant(Slice(allMessages, lastMessageCount)),
                !.total = Len(allMessages)]

\* a poll with an arbitrary lastMessageCount
Poll(k, lastMessageCount) ==
    /\ resp' = PollResponse(k, lastMessageCount)
    /\ UNCHANGED <<rev, config, emailTransporter, twilioClient,
                   dbConversations, dbMessages, clock, conversations, handoff,
                   customerContacts, txns, cursor, delivered, nreq, npoll>>

\* The widget client: polls with the total of its previous poll
ClientPoll(s) ==
    /\ npoll < MaxPolls
    /\ npoll' = npoll + 1
    /\ resp' = PollResponse(s, cursor[s])
    /\ cursor' = [cursor EXCEPT ![s] = resp'.total]
    /\ delivered' = [delivered EXCEPT ![s] = @ \o resp'.newMessages]
    /\ UNCHANGED <<rev, config, emailTransporter, twilioClient,
                   dbConversations, dbMessages, clock, conversations, handoff,
                   customerContacts, txns, nreq>>

\* ------------------------------------------------------------------------
\* setInterval cleanup, every hour.  expired are the sessions whose
\* lastActivity is more than 24 hours old.  The keys of the map are the
\* session keys and the handoff keys; the value true under a handoff key
\* has no lastActivity.
\* ------------------------------------------------------------------------
Sweep(expired) ==
    /\ txns = {}
    /\ LET deleted == {s \in Sessions :
                          /\ conversations[s].present
                          /\ \/ conversations[s].lastActivity = NULL
                             \/ s \in expired}
       IN /\ conversations' = [s \in Sessions |->
                IF s \in deleted THEN NoEntry ELSE conversations[s]]
          /\ customerContacts' = [s \in Sessions |->
                IF s \in deleted THEN NoContact ELSE customerContacts[s]]
          /\ handoff' = [s \in Sessions |-> FALSE]
    /\ resp' = [NoResp EXCEPT !.op = "sweep"]
    /\ UNCHANGED <<rev, config, emailTransporter, twilioClient,
                   dbConversations, dbMessages, clock, txns, cursor, delivered,
                   nreq, npoll>>

\* ------------------------------------------------------------------------
\* Requests in which a database statement fails.  Every write to messages
\* and to the counters runs between BEGIN and COMMIT, and the catch of the
\* function or of the handler issues ROLLBACK.
\* ------------------------------------------------------------------------
RollbackKeepsWrites(before, partial) == partial

\* await client.query('ROLLBACK'): the table as it was at BEGIN
Rollback(before, partial) == before

\* /api/chat in which the saveMessage of the bot reply throws after its
\* INSERT.  The reply is already pushed onto the cached history.  In the
\* free-form branch the throw lands in the catch of the completion call,
\* which pushes and saves the fallback sentence; in every other branch it
\* lands in the outer catch: 500.
ChatSaveFails(s, t, ok) ==
    \E out \in {ChatBranch(rev, config, getOrCreateConversation(s, clock),
                           customerContacts[s], handoff[s], emailTransporter,
                           twilioClient, t, ok)} :
    LET conv0   == getOrCreateConversation(s, clock)
        id      == conv0.conversation_id
        rows1   == InsertMessage(dbMessages, id, "user", t, clock)
        conv1   == CountMessage(conv0, clock)
        showContactForm ==
            /\ rev = "part"
            /\ CountRole(rows1, id, "user") = 1
            /\ conv0.customer_email = NULL /\ conv0.customer_phone = NULL
        entry0  == IF ~conversations[s].present
                   THEN [present |-> TRUE, msgs |-> <<>>, lastActivity |-> NULL]
                   ELSE conversations[s]
        entry1  == [Push(entry0, "user", t) EXCEPT !.lastActivity = "recent"]
        entry2  == Push(entry1, "assistant", out.reply)
        conv2   == [UpdateContact(conv1, out.setEmail, out.setPhone)
                      EXCEPT !.agent_requested = IF out.escalate THEN TRUE ELSE @]
        rows2   == Rollback(rows1, InsertMessage(rows1, id, "assistant",
                                                 out.reply, clock + 1))
        caught  == out.llm /\ ok
    IN
    /\ nreq < MaxRequests
    /\ txns = {}
    /\ ~showContactForm
    /\ nreq' = nreq + 1
    /\ clock' = clock + 3
    /\ dbMessages' = IF caught
                      THEN InsertMessage(rows2, id, "assistant", "fallback", clock + 2)
                      ELSE rows2
    /\ dbConversations' = [dbConversations EXCEPT
            ![s] = IF caught THEN CountMessage(conv2, clock + 2) ELSE conv2]
    /\ conversations' = [conversations EXCEPT
            ![s] = IF caught THEN Push(entry2, "assistant", "fallback") ELSE entry2]
    /\ handoff' = [handoff EXCEPT ![s] = IF out.escalate THEN TRUE ELSE @]
    /\ customerContacts' =
            IF out.setEmail # NULL \/ out.setPhone # NULL
            THEN [customerContacts EXCEPT
                    ![s] = MergeContact(@, out.setEmail, out.setPhone)]
            ELSE customerContacts
    /\ resp' = [NoResp EXCEPT
                    !.op = "chat", !.key = s, !.text = t,
                    !.status = IF caught THEN 200 ELSE 500,
                    !.branch = out.branch,
                    !.reply = IF caught THEN "fallback" ELSE NULL,
                    !.llm = out.llm,
                    !.mails = IF out.mail /\ config.operatorEmail
                                 /\ out.branch # "escalation" THEN 1 ELSE 0,
                    !.sms = IF out.smsTo # NULL /\ twilioClient THEN 1 ELSE 0,
                    !.smsTo = out.smsTo,
                    !.history = IF out.llm THEN Len(entry1.msgs) ELSE 0,
                    !.historyRoles =
                        IF out.llm
                        THEN {entry1.msgs[i].role : i \in DOMAIN entry1.msgs}
                        ELSE {}]
    /\ UNCHANGED <<rev, config, emailTransporter, twilioClient, txns, cursor,
                   delivered, npoll>>

\* /api/dashboard/send-message for an existing conversation in which a
\* statement throws: the INSERT of the operator message (step "operator")
\* or the UPDATE that follows it (step "update").  The cache is updated
\* only after COMMIT.
SendMessageFails(convId, step) ==
    LET k       == KeyOf(convId)
        isFirstOperatorMessage == IsFirstOperatorMessage(dbMessages, convId)
        rows1   == IF isFirstOperatorMessage
                   THEN InsertMessage(dbMessages, convId, "system", JoinedNotice, clock)
                   ELSE dbMessages
        conv1   == IF isFirstOperatorMessage
                   THEN CountMessage(dbConversations[k], clock)
                   ELSE dbConversations[k]
        rows2   == IF step = "update"
                   THEN InsertMessage(rows1, convId, "operator", "op", clock)
                   ELSE rows1
    IN
    /\ nreq < MaxRequests
    /\ txns = {}
    /\ k # NULL
    /\ nreq' = nreq + 1
    /\ clock' = clock + 1
    /\ dbMessages' = Rollback(dbMessages, rows2)
    /\ dbConversations' = Rollback(dbConversations,
                                   [dbConversations EXCEPT ![k] = conv1])
    /\ resp' = [NoResp EXCEPT !.op = "send-message", !.key = k,
                               !.status = 500, !.branch = step]
    /\ UNCHANGED <<rev, config, emailTransporter, twilioClient, conversations,
                   handoff, customerContacts, txns, cursor, delivered, npoll>>

\* /api/sms/webhook in which the UPDATE of the counter throws, after the
\* conversation was merged or created and the message inserted
SmsWebhookFails(from, newKey) ==
    /\ nreq < MaxRequests
    /\ txns = {}
    /\ nreq' = nreq + 1
    /\ clock' = clock + 1
    /\ LET M == MatchingConversations(from) IN
       IF M # {}
       THEN \E k \in M :
              /\ \A j \in M : dbConversations[j].last_message_at
                                 <= dbConversations[k].last_message_at
              /\ dbMessages' = Rollback(dbMessages,
                    InsertMessage(dbMessages, dbConversations[k].conversation_id,
                                  "user", "sms_in", clock))
              /\ dbConversations' = Rollback(dbConversations,
                    [dbConversations EXCEPT ![k].customer_sms_number = from])
       ELSE /\ dbConversations[newKey].conversation_id = 0
            /\ dbMessages' = Rollback(dbMessages,
                  InsertMessage(dbMessages, NextConversationId,
                                "user", "sms_in", clock))
            /\ dbConversations' = Rollback(dbConversations,
                  [dbConversations EXCEPT
                      ![newKey] = [NewConversation(NextConversationId, clock)
                                     EXCEPT !.customer_phone = from,
                                            !.customer_sms_number = from]])
    /\ resp' = [NoResp EXCEPT !.op = "sms-webhook", !.status = 500]
    /\ UNCHANGED <<rev, config, emailTransporter, twilioClient, conversations,
                   handoff, customerContacts, txns, cursor, delivered, npoll>>

\* ------------------------------------------------------------------------
\* Requests that overlap in time.  A request that writes messages opens a
\* database transaction (BEGIN fixes NOW(), the timestamp of its rows) and
\* commits it later; other requests run in between.
\* ------------------------------------------------------------------------
Txn(kind, k, t, conv0, ts) ==
    [kind |-> kind, key |-> k, text |-> t, conv0 |-> conv0, ts |-> ts]

\* /api/chat up to the BEGIN of saveMessage(user): the conversation row is
\* read or created and committed
BeginChat(s, t) ==
    /\ nreq < MaxRequests
    /\ Cardinality(txns) < MaxInFlight
    /\ nreq' = nreq + 1
    /\ clock' = clock + 1
    /\ dbConversations' = [dbConversations EXCEPT
                             ![s] = getOrCreateConversation(s, clock)]
    /\ txns' = txns \cup {Txn("chat", s, t, getOrCreateConversation(s, clock), clock)}
    /\ UNCHANGED <<rev, config, emailTransporter, twilioClient, dbMessages,
                   conversations, handoff, customerContacts, cursor, delivered,
                   npoll, resp>>

\* /api/chat from the INSERT of the user message to the response
CommitChat(x, ok) ==
    /\ x \in txns /\ x.kind = "chat"
    /\ txns' = txns \ {x}
    /\ clock' = clock + 1
    /\ ChatEffect(x.key, x.text, x.conv0, x.ts, clock, ok)
    /\ UNCHANGED <<rev, config, emailTransporter, twilioClient, cursor,
                   delivered, nreq, npoll>>

\* getOrCreateConversation of /api/chat up to the result of its SELECT
ChatSelect(s, t) ==
    /\ nreq < MaxRequests
    /\ Cardinality(txns) < MaxInFlight
    /\ nreq' = nreq + 1
    /\ clock' = clock + 1
    /\ txns' = txns \cup {Txn("chat-create", s, t, dbConversations[s], clock)}
    /\ UNCHANGED <<rev, config, emailTransporter, twilioClient,
                   dbConversations, dbMessages, conversations, handoff,
                   customerContacts, cursor, delivered, npoll, resp>>

\* /api/chat from the INSERT of getOrCreateConversation to the response;
\* a unique violation is thrown to the outer catch: 500
ChatInsert(x, ok) ==
    /\ x \in txns /\ x.kind = "chat-create"
    /\ txns' = txns \ {x}
    /\ clock' = clock + 2
    /\ IF x.conv0.conversation_id # 0
       THEN ChatEffect(x.key, x.text, x.conv0, clock, clock + 1, ok)
       ELSE IF UniqueViolation(dbConversations[x.key])
       THEN /\ resp' = [NoResp EXCEPT !.op = "chat", !.key = x.key,
                                       !.text = x.text, !.status = 500,
                                       !.branch = "unique_violation"]
            /\ UNCHANGED <<dbConversations, dbMessages, conversations,
                           handoff, customerContacts>>
       ELSE ChatEffect(x.key, x.text,
                       InsertConversation(dbConversations[x.key],
                                          NextConversationId, clock),
                       clock, clock + 1, ok)
    /\ UNCHANGED <<rev, config, emailTransporter, twilioClient, cursor,
                   delivered, nreq, npoll>>

\* /contact-info of src/unnamed/part_000 with a well-formed email, up to
\* the result of the SELECT of getOrCreateConversation; the cache is
\* written before
ContactSelect(s, email) ==
    /\ rev = "part"
    /\ nreq < MaxRequests
    /\ Cardinality(txns) < MaxInFlight
    /\ EmailWellFormed(email)
    /\ nreq' = nreq + 1
    /\ clock' = clock + 1
    /\ customerContacts' = [customerContacts EXCEPT
            ![s] = [present |-> TRUE, email |-> email, phone |-> NULL]]
    /\ txns' = txns \cup {Txn("contact-create", s, email, dbConversations[s], clock)}
    /\ UNCHANGED <<rev, config, emailTransporter, twilioClient,
                   dbConversations, dbMessages, conversations, handoff,
                   cursor, delivered, npoll, resp>>

\* /contact-info from the INSERT of getOrCreateConversation to the
\* response; a unique violation is thrown to the catch: 500
ContactInsert(x) ==
    /\ x \in txns /\ x.kind = "contact-create"
    /\ txns' = txns \ {x}
    /\ clock' = clock + 1
    /\ IF x.conv0.conversation_id = 0 /\ UniqueViolation(dbConversations[x.key])
       THEN /\ resp' = [NoResp EXCEPT !.op = "contact-info", !.key = x.key,
                                       !.status = 500,
                                       !.branch = "unique_violation"]
            /\ UNCHANGED dbConversations
       ELSE /\ dbConversations' = [dbConversations EXCEPT
                  ![x.key] = UpdateContact(
                      IF x.conv0.conversation_id # 0 THEN @
                      ELSE InsertConversation(@, NextConversationId, clock),
                      x.text, NULL)]
            /\ resp' = [NoResp EXCEPT !.op = "contact-info", !.key = x.key,
                                       !.status = 200]
    /\ UNCHANGED <<rev, config, emailTransporter, twilioClient, dbMessages,
                   conversations, handoff, customerContacts, cursor,
                   delivered, nreq, npoll>>

AlreadyHandedOffNow(read, current) == current

\* const alreadyHandedOff = conversations[handoffKey] || false: the value
\* read before `await markAgentRequested`, not the value of the flag when
\* the request resumes
AlreadyHandedOff(read, current) == read

\* /api/chat with an agent request on a session whose handoff flag is not
\* set, up to `await markAgentRequested(sessionKey)`: the user message is
\* saved and cached and the flag was read as unset
ChatUntilMark(s, t) ==
    LET conv0   == getOrCreateConversation(s, clock)
        rows1   == InsertMessage(dbMessages, conv0.conversation_id, "user", t, clock)
        showContactForm ==
            /\ rev = "part"
            /\ CountRole(rows1, conv0.conversation_id, "user") = 1
            /\ conv0.customer_email = NULL /\ conv0.customer_phone = NULL
        entry0  == IF ~conversations[s].present
                   THEN [present |-> TRUE, msgs |-> <<>>, lastActivity |-> NULL]
                   ELSE conversations[s]
    IN
    /\ nreq < MaxRequests
    /\ Cardinality(txns) < MaxInFlight
    /\ ~showContactForm
    /\ ChatBranch(rev, config, conv0, customerContacts[s], handoff[s],
                  emailTransporter, twilioClient, t, TRUE).branch = "escalation"
    /\ nreq' = nreq + 1
    /\ clock' = clock + 1
    /\ dbConversations' = [dbConversations EXCEPT ![s] = CountMessage(conv0, clock)]
    /\ dbMessages' = rows1
    /\ conversations' = [conversations EXCEPT
            ![s] = [Push(entry0, "user", t) EXCEPT !.lastActivity = "recent"]]
    /\ txns' = txns \cup {Txn("escalate", s, t, conv0, clock)}
    /\ UNCHANGED <<rev, config, emailTransporter, twilioClient, handoff,
                   customerContacts, cursor, delivered, npoll, resp>>

markAgentRequestedNoRow(conv) == conv

\* UPDATE conversations SET agent_requested = TRUE WHERE session_key = $1
markAgentRequested(conv) == [conv EXCEPT !.agent_requested = TRUE]

\* the same request when the UPDATE of markAgentRequested throws: the
\* error is rethrown to the outer catch before the flag is written: 500
ChatMarkFails(x) ==
    /\ x \in txns /\ x.kind = "escalate"
    /\ txns' = txns \ {x}
    /\ clock' = clock + 1
    /\ resp' = [NoResp EXCEPT !.op = "chat", !.key = x.key, !.text = x.text,
                               !.status = 500, !.branch = "mark_failed"]
    /\ UNCHANGED <<rev, config, emailTransporter, twilioClient,
                   dbConversations, dbMessages, conversations, handoff,
                   customerContacts, cursor, delivered, nreq, npoll>>

\* the same request from markAgentRequested to the response
ChatAfterMark(x) ==
    /\ x \in txns /\ x.kind = "escalate"
    /\ txns' = txns \ {x}
    /\ clock' = clock + 1
    /\ \E out \in {IF AlreadyHandedOff(FALSE, handoff[x.key])
                    THEN Out("already_notified", "already_notified", NULL,
                             NULL, NULL, FALSE, FALSE, FALSE, FALSE)
                    ELSE InitialHandoff(rev, config, emailTransporter)} :
          /\ dbConversations' = [dbConversations EXCEPT
                ![x.key] = CountMessage(IF out.escalate
                                        THEN markAgentRequested(@) ELSE @,
                                        clock)]
          /\ dbMessages' = InsertMessage(dbMessages, x.conv0.conversation_id,
                                         "assistant", out.reply, clock)
          /\ conversations' = [conversations EXCEPT
                ![x.key] = Push(@, "assistant", out.reply)]
          /\ handoff' = [handoff EXCEPT ![x.key] = IF out.escalate THEN TRUE ELSE @]
          /\ resp' = [NoResp EXCEPT
                        !.op = "chat", !.key = x.key, !.text = x.text,
                        !.status = 200, !.branch = out.branch,
                        !.reply = out.reply,
                        !.mails = IF out.mail /\ config.operatorEmail THEN 1 ELSE 0,
                        !.startPolling = out.startPolling]
    /\ UNCHANGED <<rev, config, emailTransporter, twilioClient,
                   customerContacts, cursor, delivered, nreq, npoll>>

\* /api/dashboard/send-message up to BEGIN, for an existing conversation
BeginSend(convId) ==
    /\ nreq < MaxRequests
    /\ Cardinality(txns) < MaxInFlight
    /\ KeyOf(convId) # NULL
    /\ nreq' = nreq + 1
    /\ clock' = clock + 1
    /\ txns' = txns \cup {Txn("send", KeyOf(convId), NULL, NoConversation, clock)}
    /\ UNCHANGED <<rev, config, emailTransporter, twilioClient,
                   dbConversations, dbMessages, conversations, handoff,
                   customerContacts, cursor, delivered, npoll, resp>>

\* /api/dashboard/send-message from the first query to the response
CommitSend(x) ==
    /\ x \in txns /\ x.kind = "send"
    /\ txns' = txns \ {x}
    /\ SendMessageEffect(dbConversations[x.key].conversation_id, x.ts)
    /\ UNCHANGED <<rev, config, emailTransporter, twilioClient, clock, handoff,
                   customerContacts, cursor, delivered, nreq, npoll>>

\* /api/dashboard/send-message for an existing conversation, from BEGIN to
\* the result of SELECT COUNT(*) ... role = 'operator'.  The transaction
\* sees the rows committed so far; the notice it will insert, if any, is
\* kept in the text of the transaction.
SendCount(convId) ==
    /\ nreq < MaxRequests
    /\ Cardinality(txns) < MaxInFlight
    /\ KeyOf(convId) # NULL
    /\ nreq' = nreq + 1
    /\ clock' = clock + 1
    /\ txns' = txns \cup
          {Txn("send-counted", KeyOf(convId),
               IF IsFirstOperatorMessage(dbMessages, convId)
               THEN JoinedNotice ELSE NULL,
               NoConversation, clock)}
    /\ UNCHANGED <<rev, config, emailTransporter, twilioClient,
                   dbConversations, dbMessages, conversations, handoff,
                   customerContacts, cursor, delivered, npoll, resp>>

\* the same request from `if (isFirstOperatorMessage)` to the response
SendInsert(x) ==
    LET k       == x.key
        convId  == dbConversations[k].conversation_id
        isFirstOperatorMessage == x.text # NULL
        rows1   == IF isFirstOperatorMessage
                   THEN InsertMessage(dbMessages, convId, "system", JoinedNotice, x.ts)
                   ELSE dbMessages
        conv1   == IF isFirstOperatorMessage
                   THEN CountMessage(dbConversations[k], x.ts)
                   ELSE dbConversations[k]
        entry1  == IF isFirstOperatorMessage
                   THEN Push(conversations[k], "system", JoinedNotice)
                   ELSE conversations[k]
    IN
    /\ x \in txns /\ x.kind = "send-counted"
    /\ txns' = txns \ {x}
    /\ dbMessages' = InsertMessage(rows1, convId, "operator", "op", x.ts)
    /\ dbConversations' = [dbConversations EXCEPT
            ![k] = [CountMessage(conv1, x.ts) EXCEPT
                      !.status = StatusAfterOperatorMessage(@)]]
    /\ conversations' =
            IF k \in Sessions /\ conversations[k].present
            THEN [conversations EXCEPT
                    ![k] = [Push(entry1, "operator", "op")
                              EXCEPT !.lastActivity = "recent"]]
            ELSE conversations
    /\ resp' = [NoResp EXCEPT !.op = "send-message", !.key = k, !.status = 200,
                               !.branch = IF isFirstOperatorMessage
                                          THEN "first" ELSE "later"]
    /\ UNCHANGED <<rev, config, emailTransporter, twilioClient, clock, handoff,
                   customerContacts, cursor, delivered, nreq, npoll>>

\* ------------------------------------------------------------------------
\* Specifications
\* ------------------------------------------------------------------------
ConversationIds == 1..Cardinality(SessionKeys)

ContactInputs == {<<"E1", NULL>>, <<NULL, "P1">>, <<"E1", "P1">>}

\* the texts that exercise the handoff branches
HandoffTexts == {"hello", "agent", "text", "chat here", "P1", "E1", "agent E1"}

\* the texts of the dashboard specifications: a free-form message and an
\* agent request
PlainTexts == {"hello", "agent"}

\* Customer and operator requests handled one after the other, under every
\* configuration.
Next ==
    \/ \E s \in Sessions, t \in HandoffTexts, ok \in BOOLEAN : Chat(s, t, ok)
    \/ \E s \in Sessions, c \in ContactInputs : ContactInfo(s, c[1], c[2])
    \/ \E id \in ConversationIds : SendMessage(id)

Spec == Init /\ [][Next]_vars

\* The dashboard and the polling client, requests handled one after the
\* other, under one configuration.
InitDashboard ==
    /\ Init
    /\ config.alertPreference = "dashboard"
    /\ config.smsEnabled = "disabled"

NextDashboard ==
    \/ \E s \in Sessions, t \in PlainTexts, ok \in BOOLEAN : Chat(s, t, ok)
    \/ \E id \in ConversationIds : SendMessage(id)
    \/ \E id \in ConversationIds, st \in Statuses : UpdateStatus(id, st)
    \/ \E id \in ConversationIds : SendSms(id)
    \/ \E from \in SmsSenders, k \in SmsKeys : SmsWebhook(from, k)
    \/ \E k \in SessionKeys, n \in 0..(Len(dbMessages) + 1) : Poll(k, n)

SpecDashboard == InitDashboard /\ [][NextDashboard]_vars

\* Contact capture and rejected requests, with email alerts.
InitContact ==
    /\ Init
    /\ config.alertPreference = "email"
    /\ config.smsEnabled \in {"disabled", "hybrid"}

WellFormedContactInputs ==
    {<<"E1", NULL>>, <<"E2", NULL>>, <<NULL, "P1">>, <<"E1", "P2">>}

MalformedEmails == {"E_noat", "E_nodot", "E_space"}

MalformedPhones == {"P_short", "P_word"}

MalformedContactInputs ==
    {<<"E_noat", NULL>>, <<"E_nodot", "P1">>, <<"E_space", NULL>>,
     <<NULL, "P_short">>, <<"E1", "P_word">>}

ContactTexts == {"agent", "E1", "E2", "P1"}

NextContact ==
    \/ \E s \in Sessions, c \in WellFormedContactInputs \cup MalformedContactInputs :
          ContactInfo(s, c[1], c[2])
    \/ \E s \in Sessions, t \in ContactTexts, ok \in BOOLEAN : Chat(s, t, ok)
    \/ \E k \in UnknownOperatorKeys, t \in {"hello"} : ChatUnknownOperator(k, t)

SpecContact == InitContact /\ [][NextContact]_vars

\* The hourly cleanup between customer requests, with email alerts.
InitSweep ==
    /\ Init
    /\ config.alertPreference = "email"
    /\ config.smsEnabled \in {"disabled", "hybrid"}

NextSweep ==
    \/ \E s \in Sessions, t \in {"hello", "agent", "E1"}, ok \in BOOLEAN :
          Chat(s, t, ok)
    \/ \E s \in Sessions : ContactInfo(s, "E1", NULL)
    \/ \E expired \in SUBSET Sessions : Sweep(expired)

SpecSweep == InitSweep /\ [][NextSweep]_vars

\* setInterval(..., 60 * 60 * 1000): the timer keeps firing, and 24 hours
\* after the last request every session is older than the cutoff
SpecSweepLive == SpecSweep /\ WF_vars(Sweep(Sessions))

\* Requests whose SMS, email or completion call fails or succeeds, with
\* email alerts and every SMS mode.
InitFailure ==
    /\ Init
    /\ config.alertPreference = "email"

FailureTexts == {"hello", "agent", "text", "chat here", "P1", "E1"}

NextFailure ==
    \/ \E s \in Sessions, t \in FailureTexts, ok \in BOOLEAN : Chat(s, t, ok)
    \/ \E s \in Sessions : ContactInfo(s, NULL, "P1")

SpecFailure == InitFailure /\ [][NextFailure]_vars

\* First requests of a session that overlap in getOrCreateConversation.
NextCreate ==
    \/ \E s \in Sessions, t \in PlainTexts : ChatSelect(s, t)
    \/ \E x \in txns, ok \in BOOLEAN : ChatInsert(x, ok)
    \/ \E s \in Sessions, e \in Emails : ContactSelect(s, e)
    \/ \E x \in txns : ContactInsert(x)

SpecCreate == InitContact /\ [][NextCreate]_vars

\* A hybrid-mode session whose customer said hello and then submitted the
\* contact form twice: first the phone number, then (last = "E1") the email
\* address alone, which replaces the cache entry and leaves the phone number
\* in the conversation row only.
HybridState(last) ==
    LET n == IF rev = "part" THEN 1 ELSE 2 IN
    /\ emailTransporter = TRUE
    /\ twilioClient = TRUE
    /\ dbConversations = [k \in SessionKeys |->
            IF k \in Sessions
            THEN [NewConversation(1, 1) EXCEPT
                     !.message_count = n, !.last_message_at = n,
                     !.customer_phone = "P1",
                     !.customer_email = IF last = "E1" THEN "E1" ELSE NULL]
            ELSE NoConversation]
    /\ dbMessages =
            IF rev = "part"
            THEN InsertMessage(<<>>, 1, "user", "hello", 1)
            ELSE InsertMessage(InsertMessage(<<>>, 1, "user", "hello", 1),
                               1, "assistant", "llm", 2)
    /\ clock = IF last = "E1" THEN 5 ELSE 4
    /\ conversations = [s \in Sessions |->
            IF rev = "part" THEN NoEntry
            ELSE [present |-> TRUE,
                  msgs |-> <<[role |-> "user", content |-> "hello"],
                             [role |-> "assistant", content |-> "llm"]>>,
                  lastActivity |-> "recent"]]
    /\ handoff = [s \in Sessions |-> FALSE]
    /\ customerContacts = [s \in Sessions |->
            IF last = "E1"
            THEN [present |-> TRUE, email |-> "E1", phone |-> NULL]
            ELSE [present |-> TRUE, email |-> NULL, phone |-> "P1"]]
    /\ txns = {}
    /\ cursor = [s \in Sessions |-> 0]
    /\ delivered = [s \in Sessions |-> <<>>]
    /\ npoll = 0

InitHybrid ==
    /\ rev \in Revisions
    /\ config \in {c \in Configs : c.smsEnabled = "hybrid"
                                   /\ c.alertPreference = "email"}
    /\ \E last \in {"P1", "E1"} : HybridState(last)
    /\ nreq = 0
    /\ resp = NoResp

HybridTexts == {"agent", "text", "P1", "P2", "hello"}

NextHybrid ==
    \/ \E s \in Sessions, t \in HybridTexts, ok \in BOOLEAN : Chat(s, t, ok)
    \/ \E s \in Sessions, c \in ContactInputs : ContactInfo(s, c[1], c[2])

SpecHybrid == InitHybrid /\ [][NextHybrid]_vars

\* Agent requests of one session that overlap in the initial escalation,
\* between other requests handled one at a time.
NextRace ==
    \/ \E s \in Sessions, t \in PlainTexts, ok \in BOOLEAN : Chat(s, t, ok)
    \/ \E s \in Sessions, t \in {"agent", "agent E1"} : ChatUntilMark(s, t)
    \/ \E x \in txns : ChatAfterMark(x)

SpecRace == InitContact /\ [][NextRace]_vars

\* A session after n free-form messages "hello", each answered by the
\* completion API (by the contact form for the first message under
\* src/unnamed/part_000).
WarmMessages(r, n) ==
    [i \in 1..(IF r = "part" THEN 2 * n - 1 ELSE 2 * n) |->
        [conversation_id |-> 1, message_id |-> i,
         timestamp |-> IF r = "part" /\ i > 1 THEN i + 1 ELSE i,
         role |-> IF (r = "part" /\ i > 1) = (i % 2 = 1)
                  THEN "assistant" ELSE "user",
         content |-> IF (r = "part" /\ i > 1) = (i % 2 = 1)
                     THEN "llm" ELSE "hello"]]

WarmCache(r, n) ==
    [present |-> r = "server" \/ n > 1,
     msgs |-> [i \in 1..(IF r = "part" THEN 2 * n - 2 ELSE 2 * n) |->
                 IF i % 2 = 1 THEN [role |-> "user", content |-> "hello"]
                 ELSE [role |-> "assistant", content |-> "llm"]],
     lastActivity |-> IF r = "server" \/ n > 1 THEN "recent" ELSE NULL]

WarmState(n) ==
    /\ emailTransporter = TRUE
    /\ twilioClient = TRUE
    /\ dbMessages = WarmMessages(rev, n)
    /\ dbConversations = [k \in SessionKeys |->
            IF k \in Sessions
            THEN [NewConversation(1, 1) EXCEPT
                     !.message_count = Len(WarmMessages(rev, n)),
                     !.last_message_at =
                         WarmMessages(rev, n)[Len(WarmMessages(rev, n))].timestamp]
            ELSE NoConversation]
    /\ clock = 2 * n + 1
    /\ conversations = [s \in Sessions |-> WarmCache(rev, n)]
    /\ handoff = [s \in Sessions |-> FALSE]
    /\ customerContacts = [s \in Sessions |-> NoContact]
    /\ txns = {}
    /\ cursor = [s \in Sessions |-> 0]
    /\ delivered = [s \in Sessions |-> <<>>]
    /\ npoll = 0

\* the number of earlier messages that fills the cache of src/server.js to
\* MAX_CONVERSATION_LENGTH
WarmRequests == MAX_CONVERSATION_LENGTH \div 2

InitCache ==
    /\ rev \in Revisions
    /\ config \in {c \in Configs : c.alertPreference = "dashboard"
                                   /\ c.smsEnabled = "disabled"}
    /\ WarmState(WarmRequests)
    /\ nreq = 0
    /\ resp = NoResp

NextCache ==
    \/ \E s \in Sessions, t \in {"hello", "waiver", "agent"}, ok \in BOOLEAN :
          Chat(s, t, ok)
    \/ \E id \in ConversationIds : SendMessage(id)

SpecCache == InitCache /\ [][NextCache]_vars

\* Operators with custom trigger words: " VIP", "vip," and "vip, ,".
TriggerLists == {<<" VIP">>, <<"vip", "">>, <<"vip", " ", "">>}

InitTriggers ==
    /\ rev \in Revisions
    /\ \E c \in Configs, l \in TriggerLists :
          /\ c.alertPreference = "email" /\ c.smsEnabled = "disabled"
          /\ config = [c EXCEPT !.handoffTriggers = l]
    /\ emailTransporter = TRUE
    /\ twilioClient = TRUE
    /\ dbConversations = [k \in SessionKeys |-> NoConversation]
    /\ dbMessages = <<>>
    /\ clock = 1
    /\ conversations = [s \in Sessions |-> NoEntry]
    /\ handoff = [s \in Sessions |-> FALSE]
    /\ customerContacts = [s \in Sessions |-> NoContact]
    /\ txns = {}
    /\ cursor = [s \in Sessions |-> 0]
    /\ delivered = [s \in Sessions |-> <<>>]
    /\ nreq = 0
    /\ npoll = 0
    /\ resp = NoResp

TriggerTexts == {"hello", "vip", "agent", "waiver"}

NextTriggers ==
    \E s \in Sessions, t \in TriggerTexts, ok \in BOOLEAN : Chat(s, t, ok)

SpecTriggers == InitTriggers /\ [][NextTriggers]_vars

\* Customer, operator and SMS requests, some of which fail at a database
\* statement.
StoreTexts == {"hello", "agent", "E1"}

NextStore ==
    \/ \E s \in Sessions, t \in StoreTexts, ok \in BOOLEAN : Chat(s, t, ok)
    \/ \E s \in Sessions, t \in StoreTexts, ok \in BOOLEAN : ChatSaveFails(s, t, ok)
    \/ \E id \in ConversationIds : SendMessage(id)
    \/ \E id \in ConversationIds, step \in {"operator", "update"} :
          SendMessageFails(id, step)
    \/ \E id \in ConversationIds : SendSms(id)
    \/ \E from \in SmsSenders, k \in SmsKeys : SmsWebhook(from, k)
    \/ \E from \in SmsSenders, k \in SmsKeys : SmsWebhookFails(from, k)

SpecStore == InitDashboard /\ [][NextStore]_vars

\* The operator's requests on existing and missing conversation ids.
NextOperator ==
    \/ \E s \in Sessions, t \in PlainTexts, ok \in BOOLEAN : Chat(s, t, ok)
    \/ \E id \in ConversationIds : SendMessage(id)
    \/ \E id \in ConversationIds, st \in Statuses : UpdateStatus(id, st)
    \/ \E id \in ConversationIds, st \in Statuses : SetStatus(id, st)

SpecOperator == InitDashboard /\ [][NextOperator]_vars

\* Overlapping requests on one conversation, with the polling client.
NextConcurrent ==
    \/ \E s \in Sessions, t \in {"hello"} : BeginChat(s, t)
    \/ \E x \in txns, ok \in BOOLEAN : CommitChat(x, ok)
    \/ \E id \in ConversationIds : BeginSend(id)
    \/ \E x \in txns : CommitSend(x)
    \/ \E s \in Sessions : ClientPoll(s)

SpecConcurrent == InitDashboard /\ [][NextConcurrent]_vars

\* Agent requests, overlapping or failing at the mark, with the hourly
\* cleanup.
NextMark ==
    \/ \E s \in Sessions, t \in PlainTexts, ok \in BOOLEAN : Chat(s, t, ok)
    \/ \E s \in Sessions, t \in {"agent", "agent E1"} : ChatUntilMark(s, t)
    \/ \E x \in txns : ChatAfterMark(x)
    \/ \E x \in txns : ChatMarkFails(x)
    \/ \E expired \in SUBSET Sessions : Sweep(expired)

SpecMark == InitContact /\ [][NextMark]_vars

\* Operator messages sent at the same time to one conversation.
NextJoin ==
    \/ \E s \in Sessions, t \in PlainTexts, ok \in BOOLEAN : Chat(s, t, ok)
    \/ \E id \in ConversationIds : SendCount(id)
    \/ \E x \in txns : SendInsert(x)

SpecJoin == InitDashboard /\ [][NextJoin]_vars

\* ------------------------------------------------------------------------
\* Properties
\* ------------------------------------------------------------------------
\* this step is a /api/chat request on session s (sequential requests)
ChatStep(s) == nreq' = nreq + 1 /\ resp'.op = "chat" /\ resp'.key = s

\* the transcript of the conversation of a session key
Transcript(k) == ListMessages(dbMessages, dbConversations[k].conversation_id)

\* an operator message sent by /api/dashboard/send-message is stored
HumanJoined(k) ==
    \E m \in RowsOf(dbMessages, dbConversations[k].conversation_id) :
        m.role = "operator" /\ m.content = "op"

\* the contact information recorded for a session, durable and cached
Contact(s) ==
    <<dbConversations[s].customer_email, dbConversations[s].customer_phone,
      customerContacts[s].email, customerContacts[s].phone>>

IsPrefix(p, q) == Len(p) <= Len(q) /\ \A i \in 1..Len(p) : p[i] = q[i]

\* C1: once the handoff flag of a session is set, no later customer
\* message on that session calls the completion API.
C1_NoCompletionAfterEscalation ==
    [][\A s \in Sessions : handoff[s] /\ ChatStep(s) => ~resp'.llm]_vars

\* C2: once an operator message sent from the dashboard is stored for a
\* conversation, no later customer message of that conversation calls the
\* completion API.
C2_NoCompletionAfterHumanJoined ==
    [][\A s \in Sessions : HumanJoined(s) /\ ChatStep(s) => ~resp'.llm]_vars

\* C3: after a human joined, every customer message is appended to the
\* transcript; the first one gets the fixed acknowledgment, each later one
\* gets no assistant message.
HumanJoinedAck == "team_will_respond"

UserMessagesAfterJoin(s) ==
    LET T == Transcript(s)
        first == CHOOSE i \in 1..Len(T) :
                    /\ T[i].role = "operator"
                    /\ \A j \in 1..(i - 1) : T[j].role # "operator"
    IN Cardinality({i \in (first + 1)..Len(T) : T[i].role = "user"})

AssistantCount(rows, s) ==
    CountRole(rows, dbConversations[s].conversation_id, "assistant")

C3_AcknowledgeOnceThenSilent ==
    [][\A s \in Sessions : HumanJoined(s) /\ ChatStep(s) =>
          /\ Len(Transcript(s)') >= Len(Transcript(s)) + 1
          /\ IF UserMessagesAfterJoin(s) = 0
             THEN resp'.reply = HumanJoinedAck
             ELSE /\ resp'.reply = NULL
                  /\ AssistantCount(dbMessages', s) = AssistantCount(dbMessages, s)]_vars

\* C4: with alertPreference = none (src/unnamed/part_000; server.js has no
\* such setting) no handoff email and no SMS is sent, agent-requested and
\* the handoff flag stay false, and an agent request that reaches the
\* handoff decision gets the self-service reply.
C4_AlertNoneSuppressesHandoff ==
    rev = "part" /\ config.alertPreference = "none" =>
        /\ resp.mails = 0 /\ resp.sms = 0
        /\ \A s \in Sessions : ~handoff[s] /\ ~dbConversations[s].agent_requested
        /\ resp.op = "chat" /\ resp.branch \in {"ai_only", "escalation"}
              => resp.reply = "ai_only"

\* C5: when the message that started the escalation is sent again as the
\* next request and the recorded contact information is the same before and
\* after it, the two requests together make at most one notification call
\* and the second one gets the 'already notified' reply.
C5_RepeatedAgentRequestNotifiesOnce ==
    [][\A s \in Sessions :
          /\ resp.op = "chat" /\ resp.key = s /\ resp.branch = "escalation"
          /\ ChatStep(s) /\ resp'.text = resp.text
          /\ Contact(s)' = Contact(s)
          => /\ resp.mails + resp.sms + resp'.mails + resp'.sms <= 1
             /\ resp'.reply = "already_notified"]_vars

\* C6: after escalation, a follow-up message that repeats the previous
\* follow-up message and leaves the recorded contact information unchanged
\* triggers no email and no SMS.
C6_NoNotificationWithoutContactChange ==
    [][\A s \in Sessions :
          /\ handoff[s]
          /\ resp.op = "chat" /\ resp.key = s /\ resp.branch # "escalation"
          /\ ChatStep(s) /\ resp'.text = resp.text
          /\ Contact(s)' = Contact(s)
          => resp'.mails = 0 /\ resp'.sms = 0]_vars

\* C7: the ordered transcript of every conversation only grows at its
\* end: each query result is a prefix of every later one.
C7_TranscriptPrefixStable ==
    [][\A k \in SessionKeys : IsPrefix(Transcript(k), Transcript(k)')]_vars

\* C8: a poll with lastMessageCount n returns exactly the transcript
\* messages at (0-based) index >= n whose role is operator or system, in
\* transcript order, and the length of the whole transcript; for a session
\* key without conversation it returns no message and the count 0.
C8_PollReturnsNewOperatorMessages ==
    resp.op = "poll" =>
        IF dbConversations[resp.key].conversation_id = 0
        THEN resp.newMessages = <<>> /\ resp.total = 0
        ELSE LET T   == Transcript(resp.key)
                 idx == {i \in 1..Len(T) : /\ i > resp.last
                                           /\ T[i].role \in {"operator", "system"}}
             IN /\ resp.total = Len(T)
                /\ Len(resp.newMessages) = Cardinality(idx)
                /\ \A j \in 1..Len(resp.newMessages) :
                      \E i \in idx :
                         /\ resp.newMessages[j] = T[i]
                         /\ Cardinality({h \in idx : h < i}) = j - 1

\* a poll past two messages of a transcript of five that returns the
\* system and the operator message behind an assistant message
C8_Witness ==
    /\ resp.op = "poll" /\ resp.last = 2 /\ resp.total = 5
    /\ Len(resp.newMessages) = 2
    /\ Transcript(resp.key)[3].role = "assistant"

\* C9: a client that sends the total of its previous poll as
\* lastMessageCount never receives the same message twice.
C9_NoMessageDeliveredTwice ==
    \A s \in Sessions : \A i, j \in 1..Len(delivered[s]) :
        i # j => delivered[s][i].message_id # delivered[s][j].message_id

\* C10: a conversation that holds an operator message sent from the
\* dashboard chat holds exactly one 'team member has joined' message.
JoinedCount(k) ==
    Cardinality({m \in RowsOf(dbMessages, dbConversations[k].conversation_id) :
                    m.role = "system" /\ m.content = JoinedNotice})

OperatorSends(k) ==
    Cardinality({m \in RowsOf(dbMessages, dbConversations[k].conversation_id) :
                    m.role = "operator" /\ m.content = "op"})

FirstOperatorIndex(T) ==
    CHOOSE i \in 1..Len(T) :
        /\ T[i].role = "operator"
        /\ \A j \in 1..(i - 1) : T[j].role # "operator"

SendStep(k) ==
    /\ nreq' = nreq + 1
    /\ resp'.op = "send-message" /\ resp'.status = 200 /\ resp'.key = k

StoredEmail(s) == dbConversations[s].customer_email
StoredPhone(s) == dbConversations[s].customer_phone
StoredSmsNumber(s) == dbConversations[s].customer_sms_number

\* C12: submitting or capturing an email stores it, when the session has
\* a conversation record, and leaves the stored phone and SMS number
\* unchanged; capturing a phone stores it and leaves the stored email
\* unchanged.
C12_ContactFieldsIndependent ==
    [][\A s \in Sessions :
          /\ \A e \in Emails : ContactInfo(s, e, NULL) =>
                /\ dbConversations'[s].conversation_id # 0 => StoredEmail(s)' = e
                /\ StoredPhone(s)' = StoredPhone(s)
                /\ StoredSmsNumber(s)' = StoredSmsNumber(s)
          /\ ChatStep(s) /\ resp'.branch = "email_saved" =>
                /\ StoredEmail(s)' = extractEmailFromMessage(resp'.text)
                /\ StoredPhone(s)' = StoredPhone(s)
                /\ StoredSmsNumber(s)' = StoredSmsNumber(s)
          /\ \A p \in Phones : ContactInfo(s, NULL, p) =>
                /\ dbConversations'[s].conversation_id # 0 => StoredPhone(s)' = p
                /\ StoredEmail(s)' = StoredEmail(s)
          /\ ChatStep(s) /\ resp'.branch \in {"phone_saved", "sms_phone"} =>
                /\ StoredPhone(s)' = extractPhoneFromMessage(resp'.text)
                /\ StoredEmail(s)' = StoredEmail(s)]_vars

\* a different email was captured from a chat message while a phone was
\* on record, and the phone is still there
C12_Witness ==
    /\ resp.op = "chat" /\ resp.branch = "email_saved" /\ resp.text = "E2"
    /\ StoredEmail(resp.key) = "E2" /\ StoredPhone(resp.key) = "P2"

\* C19: a chat request whose operator id has no stored configuration
\* returns 404 and changes neither the tables nor the caches nor the
\* handoff flags.
C19_UnknownOperatorHasNoEffect ==
    [][\A k \in UnknownOperatorKeys, t \in Texts :
          ChatUnknownOperator(k, t) =>
              /\ resp'.status = 404
              /\ UNCHANGED <<dbConversations, dbMessages, conversations,
                             customerContacts, handoff>>]_vars

\* C20: a contact submission with a malformed email or a malformed phone
\* is answered with an error and changes neither the contact cache nor
\* the conversations table nor any other table or cache.
C20_MalformedContactRejected ==
    [][\A s \in Sessions, e \in Emails \cup MalformedEmails \cup {NULL},
          p \in Phones \cup MalformedPhones \cup {NULL} :
          (e \in MalformedEmails \/ p \in MalformedPhones)
          /\ ContactInfo(s, e, p) =>
              /\ resp'.status = 400
              /\ UNCHANGED <<dbConversations, dbMessages, conversations,
                             customerContacts, handoff>>]_vars

\* a submission was rejected while an earlier one is on record
C20_Witness ==
    /\ resp.op = "contact-info" /\ resp.status = 400
    /\ customerContacts[resp.key].present
    /\ customerContacts[resp.key].email = "E1"

\* C13: in src/unnamed/part_000 an agent request on a session whose
\* handoff flag is not set marks the conversation agent-requested, answers
\* with startPolling = true and sends no email when alertPreference is
\* dashboard, and answers with startPolling = false otherwise.
C13_DashboardEscalationStartsPolling ==
    [][\A s \in Sessions :
          /\ rev = "part" /\ ~handoff[s]
          /\ ChatStep(s) /\ isAgentRequest(config, resp'.text)
          => IF config.alertPreference = "dashboard"
             THEN /\ dbConversations'[s].agent_requested
                  /\ resp'.startPolling
                  /\ resp'.mails = 0
             ELSE ~resp'.startPolling]_vars

\* the replies of the handoff follow-up block
FollowUpBranches ==
    {"sms_existing", "sms_choice", "sms_same_phone", "sms_phone",
     "chat_here", "email_saved", "phone_saved", "already_notified"}

\* C14: while the handoff flag of a session is set, every customer message
\* is answered by a branch of the handoff follow-up block, never by a
\* canned reply, the weather reply or the completion API.
C14_FollowUpOnlyWhileHandedOff ==
    [][\A s \in Sessions :
          handoff[s] /\ ChatStep(s) => resp'.branch \in FollowUpBranches]_vars

\* C15: on a session whose handoff flag is not set and with an
\* alertPreference other than none, every message that matches the
\* agent-request signal, the first message of the session included, enters
\* the initial escalation: agent-requested and the handoff flag are set and
\* the escalation reply is returned.
C15_AgentRequestEscalates ==
    [][\A s \in Sessions :
          /\ ~handoff[s] /\ config.alertPreference # "none"
          /\ ChatStep(s) /\ isAgentRequest(config, resp'.text)
          => /\ resp'.branch = "escalation" /\ resp'.reply = "escalation"
             /\ handoff'[s]
             /\ dbConversations'[s].agent_requested]_vars

\* C16: once a conversation has been escalated (agent-requested is set)
\* and no operator changed its status, the handoff is active at every
\* later customer message: the message does not run the initial
\* escalation again and the handoff flag is set after it.
C16_HandoffStaysActive ==
    [][\A s \in Sessions :
          dbConversations[s].agent_requested /\ ChatStep(s)
          => /\ resp'.branch # "escalation"
             /\ handoff[s] /\ handoff'[s]]_vars

\* the branches that escalate or capture a contact
CaptureBranches ==
    {"escalation", "sms_existing", "sms_choice", "sms_same_phone",
     "sms_phone", "chat_here", "email_saved", "phone_saved",
     "sms_first_phone"}

\* the replies of those branches; none of them reports a failure
CaptureReplies ==
    {"escalation", "sms_sent", "sms_saved", "chat_here", "email_saved",
     "phone_saved"}

\* C17: when the SMS or the email sent by an escalation or contact
\* capture request fails, the request takes the branch of the success
\* case, stores the captured contact in the record and in the cache, sets
\* the flags the success case sets, appends the user message and the bot
\* reply to the transcript and returns 200 with a reply that does not
\* report the failure.
C17_CaptureSurvivesTransportFailure ==
    [][\A s \in Sessions :
          /\ ChatStep(s) /\ resp'.branch \in CaptureBranches
          /\ Chat(s, resp'.text, FALSE)
          =>
          LET t    == resp'.text
              good == ChatBranch(rev, config, dbConversations[s],
                                 customerContacts[s], handoff[s],
                                 emailTransporter, twilioClient, t, TRUE)
              T    == Transcript(s)'
          IN /\ resp'.status = 200
             /\ resp'.branch = good.branch
             /\ resp'.reply \in CaptureReplies
             /\ Len(T) = Len(Transcript(s)) + 2
             /\ T[Len(T) - 1].role = "user" /\ T[Len(T) - 1].content = t
             /\ T[Len(T)].role = "assistant" /\ T[Len(T)].content = resp'.reply
             /\ good.setPhone # NULL =>
                   /\ StoredPhone(s)' = good.setPhone
                   /\ customerContacts'[s].phone = good.setPhone
             /\ good.setEmail # NULL =>
                   /\ StoredEmail(s)' = good.setEmail
                   /\ customerContacts'[s].email = good.setEmail
             /\ handoff'[s] = (handoff[s] \/ good.escalate)
             /\ dbConversations'[s].agent_requested =
                   (dbConversations[s].agent_requested \/ good.escalate)
             /\ resp'.startPolling = good.startPolling]_vars

\* sendSMS was called and failed; the phone is stored and the reply says
\* the team will text
C17_Witness ==
    /\ resp.op = "chat" /\ resp.branch = "sms_phone"
    /\ resp.sms = 1 /\ resp.reply = "sms_saved"
    /\ StoredPhone(resp.key) = "P1"
    /\ customerContacts[resp.key].phone = "P1"

\* C18: when the completion API fails in the free-form branch, the request
\* returns 200 with the fixed fallback sentence and that sentence is
\* appended to the transcript as an assistant message after the user
\* message.
C18_CompletionFailureFallsBack ==
    [][\A s \in Sessions :
          ChatStep(s) /\ resp'.llm /\ Chat(s, resp'.text, FALSE) =>
          LET t == resp'.text
              T == Transcript(s)'
          IN
          /\ resp'.status = 200
          /\ resp'.reply = "fallback"
          /\ Len(T) = Len(Transcript(s)) + 2
          /\ T[Len(T) - 1].role = "user" /\ T[Len(T) - 1].content = t
          /\ T[Len(T)].role = "assistant" /\ T[Len(T)].content = "fallback"]_vars

\* the completion API was called and failed; the transcript ends with the
\* fallback sentence
C18_Witness ==
    /\ resp.op = "chat" /\ resp.llm /\ resp.status = 200
    /\ resp.reply = "fallback"
    /\ Len(Transcript(resp.key)) >= 2
    /\ Transcript(resp.key)[Len(Transcript(resp.key))].content = "fallback"

\* C21: send-message, update-status and conversations/:id/status for a
\* conversation id that has no row answer 404 and change no row of
\* conversations or messages; a status request with a valid status for an
\* existing conversation answers 200 and sets the status of that
\* conversation, and nothing else, to the given value.
C21_OperatorRequestsOnMissingAndExisting ==
    [][\A id \in ConversationIds :
          /\ SendMessage(id) /\ KeyOf(id) = NULL
                => /\ resp'.status = 404
                   /\ UNCHANGED <<dbConversations, dbMessages, conversations>>
          /\ \A st \in Statuses :
                /\ (UpdateStatus(id, st) \/ SetStatus(id, st)) /\ KeyOf(id) = NULL
                      => /\ resp'.status = 404
                         /\ UNCHANGED <<dbConversations, dbMessages, conversations>>
                /\ (UpdateStatus(id, st) \/ SetStatus(id, st)) /\ KeyOf(id) # NULL
                      => /\ resp'.status = 200
                         /\ dbConversations' =
                               [dbConversations EXCEPT ![KeyOf(id)].status = st]
                         /\ UNCHANGED dbMessages]_vars

\* C22: in every reachable state the table conversations holds at most
\* one row per session key, also when first requests of a session overlap
\* between the SELECT and the INSERT of getOrCreateConversation.
C22_OneConversationPerSessionKey ==
    \A k \in SessionKeys : dbConversations[k].rows <= 1

\* a first request lost the race: its INSERT was rejected and the session
\* key has the one row of the winner
C22_Witness ==
    /\ resp.branch = "unique_violation" /\ resp.status = 500
    /\ resp.key \in Sessions
    /\ dbConversations[resp.key].rows = 1

\* C23: a /contact-info request with well-formed fields for a session key
\* that has no conversation row creates the row and stores the submitted
\* fields in it, and the /api/chat request that follows does not ask for
\* contact information.
C23_ContactCreatesConversation ==
    [][\A s \in Sessions :
          /\ \A c \in WellFormedContactInputs :
                dbConversations[s].conversation_id = 0 /\ ContactInfo(s, c[1], c[2])
                => /\ resp'.status = 200
                   /\ dbConversations'[s].conversation_id # 0
                   /\ c[1] # NULL => dbConversations'[s].customer_email = c[1]
                   /\ c[2] # NULL => dbConversations'[s].customer_phone = c[2]
          /\ /\ resp.op = "contact-info" /\ resp.key = s /\ resp.status = 200
             /\ ChatStep(s)
             => resp'.branch # "contact_form"]_vars

\* some contact information is recorded for the session, in the cache or
\* in the conversation row
ContactKnown(s) == \E i \in 1..4 : Contact(s)[i] # NULL

\* C24: with alertPreference email, the request that runs the initial
\* escalation sends the handoff email only if contact information of the
\* session is already known; the later request that captures an email
\* address or a phone number sends it.
C24_EmailDeferredUntilContactKnown ==
    [][\A s \in Sessions :
          config.alertPreference = "email" /\ ChatStep(s)
          => /\ resp'.branch = "escalation" /\ resp'.mails > 0 => ContactKnown(s)
             /\ resp'.branch \in {"email_saved", "phone_saved"} => resp'.mails = 1]_vars

\* the phone numbers recorded for a session, in the cache or in the row
RecordedPhones(s) ==
    {customerContacts[s].phone, dbConversations[s].customer_phone} \ {NULL}

\* C25: in hybrid SMS mode with the handoff flag set, a message "text"
\* while a phone number is recorded in the cache or in the conversation
\* row makes exactly one sendSMS call, to a recorded number, and the reply
\* is one of the two replies that quote the number.
C25_TextChoiceUsesRecordedPhone ==
    [][\A s \in Sessions :
          /\ config.smsEnabled = "hybrid" /\ handoff[s]
          /\ RecordedPhones(s) # {}
          /\ ChatStep(s) /\ resp'.text = "text"
          => /\ resp'.sms = 1
             /\ resp'.smsTo \in RecordedPhones(s)
             /\ resp'.reply \in {"sms_sent", "sms_saved"}]_vars

\* the escalation replies stored for a session
EscalationReplies(k) ==
    {m \in RowsOf(dbMessages, dbConversations[k].conversation_id) :
        m.role = "assistant" /\ m.content = "escalation"}

\* C26: an agent request that read the handoff flag as unset runs the
\* initial escalation when it resumes after markAgentRequested, whatever
\* another request of the session did to the flag in between: it marks
\* the conversation agent-requested, sets the flag, returns the escalation
\* reply and sends the notification the configuration asks for.
C26_EscalationNotSerialized ==
    [][\A x \in txns :
          ChatAfterMark(x)
          => /\ resp'.branch = "escalation"
             /\ dbConversations'[x.key].agent_requested
             /\ handoff'[x.key]
             /\ resp'.mails = IF InitialHandoff(rev, config, emailTransporter).mail
                               THEN 1 ELSE 0]_vars

\* two overlapping agent requests of one session both ran the initial
\* escalation and the second one notified the operator again
C26_Witness ==
    /\ resp.op = "chat" /\ resp.branch = "escalation" /\ resp.mails = 1
    /\ resp.key \in Sessions
    /\ Cardinality(EscalationReplies(resp.key)) = 2

\* C27: while no request is in flight the cached history of every session
\* has at most MAX_CONVERSATION_LENGTH entries, and no completion call was
\* given a longer history.
C27_CacheCapped ==
    /\ txns = {} =>
          \A s \in Sessions : Len(conversations[s].msgs) <= MAX_CONVERSATION_LENGTH
    /\ resp.history <= MAX_CONVERSATION_LENGTH

\* C28: a run of the cleanup timer leaves the cached history, the handoff
\* flag and the cached contact of every session untouched whose last
\* message is less than 24 hours old.
C28_SweepKeepsActiveSessions ==
    [][\A expired \in SUBSET Sessions :
          Sweep(expired)
          => \A s \in Sessions \ expired :
                conversations[s].present
                => /\ conversations'[s] = conversations[s]
                   /\ handoff'[s] = handoff[s]
                   /\ customerContacts'[s] = customerContacts[s]]_vars

\* no in-memory entry is left for a session
Evicted(s) ==
    /\ ~conversations[s].present
    /\ ~handoff[s]
    /\ ~customerContacts[s].present

\* C29: when the cleanup timer keeps firing, the cached history, the
\* handoff flag and the cached contact of every session are removed for
\* good once the session has gone idle, the cached contact of a session
\* that only submitted the contact form included.
C29_IdleStateEventuallyRemoved ==
    <>[](\A s \in Sessions : Evicted(s))

\* C30: whenever the conversation row of a session has agent_requested =
\* TRUE, an agent request on the session gets the 'already notified' reply
\* and sends no notification, whether or not the in-memory entries of the
\* session are still there.
C30_RepeatRequestDecidedFromRecord ==
    [][\A s \in Sessions :
          /\ dbConversations[s].agent_requested
          /\ ChatStep(s) /\ isAgentRequest(config, resp'.text)
          => /\ resp'.branch = "already_notified"
             /\ resp'.mails = 0]_vars

\* the message contains a default keyword, a non-empty custom trigger
\* word, or satisfies one of the compound heuristics
HasTriggerWord(cfg, t) ==
    \/ \E kw \in defaultAgentKeywords \cup NonEmptyTriggers(cfg) : kw \in Tokens(t)
    \/ "call me" \in Tokens(t)
    \/ "speak" \in Tokens(t) /\ "human" \in Tokens(t)
    \/ "talk" \in Tokens(t) /\ "human" \in Tokens(t)
    \/ "connect" \in Tokens(t) /\ "agent" \in Tokens(t)
    \/ "phone" \in Tokens(t) /\ "call" \in Tokens(t) /\ Len(t) < 20

\* C32: a customer message is handled as an agent request (initial
\* escalation or repeat request) only if it contains a default keyword, a
\* non-empty custom trigger word of the operator, or satisfies a compound
\* heuristic, whatever empty fields the operator's trigger list has.
C32_EmptyTriggerDoesNotEscalate ==
    [][\A s \in Sessions :
          /\ ChatStep(s)
          /\ resp'.branch \in {"escalation", "ai_only", "already_notified"}
          => HasTriggerWord(config, resp'.text)]_vars

\* the customer and assistant entries of a cached history, in order
RECURSIVE CustomerAndAssistant(_)
CustomerAndAssistant(q) ==
    IF q = <<>> THEN <<>>
    ELSE IF Head(q).role \in {"user", "assistant"}
         THEN <<Head(q)>> \o CustomerAndAssistant(Tail(q))
         ELSE CustomerAndAssistant(Tail(q))

\* the entries of p occur in q with the same role and content, in the
\* same relative order
RECURSIVE IsSubsequence(_, _)
IsSubsequence(p, q) ==
    IF p = <<>> THEN TRUE
    ELSE IF q = <<>> THEN FALSE
    ELSE IF Head(p).role = Head(q).role /\ Head(p).content = Head(q).content
         THEN IsSubsequence(Tail(p), Tail(q))
         ELSE IsSubsequence(p, Tail(q))

\* C31: while no request is in flight, the customer and assistant entries
\* of the cached history of every session occur in the transcript of its
\* conversation with the same role and content, in the same relative
\* order, also after a request whose transcript write failed.
C31_CacheWithinTranscript ==
    txns = {} =>
       \A s \in Sessions :
          IsSubsequence(CustomerAndAssistant(conversations[s].msgs), Transcript(s))

\* C33: in every reachable state the message_count of each conversation
\* equals the number of rows of messages of that conversation, also after
\* requests that failed at a database statement.
C33_CounterMatchesTranscript ==
    /\ \A k \in SessionKeys :
          dbConversations[k].message_count =
             Cardinality(RowsOf(dbMessages, dbConversations[k].conversation_id))
    /\ \A i \in DOMAIN dbMessages : KeyOf(dbMessages[i].conversation_id) # NULL

\* a chat request failed at the save of its reply and the counter still
\* equals the number of rows
C33_Witness ==
    /\ resp.op = "chat" /\ resp.status = 500 /\ resp.key \in Sessions
    /\ dbConversations[resp.key].message_count = 1
    /\ Cardinality(RowsOf(dbMessages, dbConversations[resp.key].conversation_id)) = 1

\* C34: a send-message request in which a statement fails persists
\* nothing and leaves the cached history alone; one that succeeds persists
\* the operator message, the joined notice when it is the first, the
\* counter and the status change together, and then updates the cache.
C34_SendMessageAtomic ==
    [][\A id \in ConversationIds :
          /\ \A step \in {"operator", "update"} :
                SendMessageFails(id, step)
                => /\ resp'.status = 500
                   /\ UNCHANGED <<dbConversations, dbMessages, conversations>>
          /\ SendMessage(id) /\ KeyOf(id) # NULL
                => LET k == KeyOf(id)
                       n == IF IsFirstOperatorMessage(dbMessages, id) THEN 2 ELSE 1
                   IN /\ resp'.status = 200
                      /\ Len(dbMessages') = Len(dbMessages) + n
                      /\ dbMessages'[Len(dbMessages')].role = "operator"
                      /\ n = 2 => dbMessages'[Len(dbMessages') - 1].role = "system"
                      /\ dbConversations'[k].message_count =
                            dbConversations[k].message_count + n
                      /\ dbConversations'[k].status =
                            StatusAfterOperatorMessage(dbConversations[k].status)
                      /\ k \in Sessions /\ conversations[k].present =>
                            Len(conversations'[k].msgs) = Len(conversations[k].msgs) + n]_vars

\* a first operator message failed after the joined notice was inserted:
\* the transcript holds neither the notice nor the operator message
C34_Witness ==
    /\ resp.op = "send-message" /\ resp.status = 500 /\ resp.branch = "update"
    /\ resp.key \in Sessions
    /\ CountRole(dbMessages, dbConversations[resp.key].conversation_id, "system") = 0
    /\ CountRole(dbMessages, dbConversations[resp.key].conversation_id, "operator") = 0

\* C35: when two send-message requests reach, at the same time, a
\* conversation that has no operator message yet, the transcript holds
\* exactly one 'joined' notice, and it stands before both operator
\* messages.
C35_OneJoinedNoticeUnderConcurrency ==
    \A k \in SessionKeys :
        LET T == Transcript(k) IN
        OperatorSends(k) >= 1
        => /\ JoinedCount(k) = 1
           /\ \A i, j \in 1..Len(T) :
                 T[i].role = "system" /\ T[j].role = "operator" => i < j

\* C36: a client that polls with the total of its previous poll receives
\* every operator and system message of its conversation: once no request
\* is in flight and the client has polled up to the current total, no such
\* message of the transcript is missing from what it was handed, also when
\* transactions committed around its polls.
C36_NoMessageSkipped ==
    \A s \in Sessions :
        LET T == Transcript(s) IN
        txns = {} /\ cursor[s] = Len(T)
        => \A i \in 1..Len(T) :
              T[i].role \in {"operator", "system"}
              => \E j \in 1..Len(delivered[s]) :
                    delivered[s][j].message_id = T[i].message_id

\* C37: the history handed to the completion call of a chat request holds
\* customer and assistant entries only; the operator and system entries
\* that send-message pushed onto the cached history are never part of it.
C37_HistoryHasCustomerAndAssistantOnly ==
    resp.op = "chat" /\ resp.llm => resp.historyRoles \subseteq {"user", "assistant"}

\* C38: while the contact cache holds an entry for a session, every
\* contact field of the conversation record that is not empty has the same
\* value in the entry, and every field of the entry is stored with the
\* same value in the conversation record.
C38_ContactCacheAgreesWithRecord ==
    \A s \in Sessions :
        customerContacts[s].present
        => /\ dbConversations[s].customer_email # NULL
                => customerContacts[s].email = dbConversations[s].customer_email
           /\ dbConversations[s].customer_phone # NULL
                => customerContacts[s].phone = dbConversations[s].customer_phone
           /\ customerContacts[s].email # NULL
                => dbConversations[s].customer_email = customerContacts[s].email
           /\ customerContacts[s].phone # NULL
                => dbConversations[s].customer_phone = customerContacts[s].phone

\* C39: whenever the handoff flag of a session is set, agent_requested
\* is true in its conversation record; and agent_requested, once true, is
\* never reset.
C39_FlagImpliesAgentRequested ==
    [][/\ \A s \in Sessions :
             handoff'[s] => dbConversations'[s].agent_requested
       /\ \A k \in SessionKeys :
             dbConversations[k].agent_requested
             => dbConversations'[k].agent_requested]_vars

\* a session whose flag is set and whose record is marked, after an
\* escalation
C39_Witness ==
    \E s \in Sessions :
        /\ resp.op = "chat" /\ resp.branch = "escalation"
        /\ handoff[s]
        /\ dbConversations[s].agent_requested

====
